---- MODULE Spec2Model ----
(***************************************************************************)
(* The durable queue (queue/reader.ts, queue/writer.ts), the queue         *)
(* processor (daemon/processor.ts) and the producers and command-line      *)
(* operations that touch the queue file of claude-linear-sync.             *)
(*                                                                         *)
(* The processor is one Node.js process: its code runs to completion       *)
(* between suspension points, and the only suspension point of a drain is  *)
(* the awaited handler of a record. Hooks and the command-line tool are    *)
(* other processes; their queue operations are synchronous and happen at   *)
(* any moment between two steps of the processor.                          *)
(***************************************************************************)
EXTENDS Integers, Sequences, FiniteSets, TLC

(* ---------------------------- bounds ---------------------------------- *)

\* records the hooks append in one behaviour
MaxAppends == 2
\* `queue retry <id>` commands issued in one behaviour
MaxResets == 1
\* change notifications the watcher holds undelivered (later ones coalesce)
MaxNotif == 1
\* malformed lines written to the queue file in one behaviour
MaxMalformed == 1
MaxRestarts == 1
\* drain passes after which delivery is complete (see C2)
DrainBound == 2
\* the longest command line of the hook's input, in words
MaxCommandLen == 3
\* the most pieces a tool response is put together from
MaxSegments == 2
\* the most pieces a branch name is put together from
MaxBranchSegments == 3
\* the most issues a search returns
MaxResults == 2
MaxTitleHits == 7
MaxPerMinute == 2
TicksPerMinute == 6
MaxTime == 7
MaxInvocations == 2
MaxEvents == 3
MaxLines == 2
MaxHours == 2
MaxEntries == 3
MaxFileLines == 3

(* --------------------------- constants -------------------------------- *)

\* readRetryableItems(maxRetries: number = 3)
DefaultMaxRetries == 3
\* HybridMatcher's DEFAULT_CONFIG and SemanticSearcher's, in thousandths
DefaultKeywordWeight == 600
DefaultSemanticWeight == 400
DefaultConfidenceThreshold == 700
DefaultMaxCandidates == 10
MinRelevanceScore == 300

\* concurrent invocations of processQueue the event loop can hold
Slots == {1, 2}

Sessions == {"s1", "s2"}
Kinds == {"session_stop", "pr_created", "other"}
Statuses == {"pending", "processing", "processed", "failed"}
ErrMsgs == {"ENOENT", "TypeError"}

\* an absent optional field (retryCount?: number, error?: string)
Undef == -1
NoError == "undefined"

\* a line of the queue file that is empty, and one that is not JSON
BlankLine == [bad |-> "blank"]
InvalidLine == [bad |-> "invalid"]

IsRecord(line) == "id" \in DOMAIN line

VARIABLES
    queue,        \* the lines of queue.jsonl, in file order
    nextId,       \* ids (and timestamps) handed out so far, plus one
    lifecycle,    \* "created" | "initial" | "watching" | "closing" | "exited"
    processing,   \* QueueProcessor.processing
    watcher,      \* QueueProcessor.watcher is subscribed
    cachedTeamId, \* QueueProcessor.cachedTeamId is set
    inv,          \* per invocation of processQueue: where it is
    notif,        \* change notifications not yet delivered
    comments,     \* the tracker: ids of the records whose comment was created, in order
    hist,         \* per record id: what the processor did with it
    drains,       \* bookkeeping of drain passes
    budget,       \* what the environment has done so far
    hook,         \* the post-tool-use hook process: its input and what it did
    attempt,      \* one processItem call followed step by step (SpecItem)
    resolver,     \* one issue resolution: its input, the calls it issued, its result (SpecResolve)
    limiter,      \* the matcher's RateLimiter, the clock and the matcher's calls (SpecLimiter)
    sessionWatcher,\* SessionWatcher for one session: entries, matchCache, the change handlers in flight (SpecWatcher)
    call          \* one call of a queue/writer.ts function: the file before, the arguments, the file after (SpecWriter)

vars == <<queue, nextId, lifecycle, processing, watcher, cachedTeamId, inv,
          notif, comments, hist, drains, budget, hook, attempt, resolver, limiter, sessionWatcher, call>>

IDs == 1..(MaxAppends)

(* ------------------------- queue/reader.ts ---------------------------- *)

\* content.trim().split("\n").filter(Boolean): empty lines are dropped
NonEmptyLines(lines) == SelectSeq(lines, LAMBDA l : l # BlankLine)

\* lines.map(JSON.parse): throws at the first line that is not JSON
ReadThrows(lines) == \E i \in 1..Len(lines) : lines[i] = InvalidLine

readAllItems(lines) == NonEmptyLines(lines)

readPendingItems(lines) ==
    SelectSeq(readAllItems(lines), LAMBDA r : r.status = "pending")

RetryCountOf(r) == IF r.retryCount = Undef THEN 0 ELSE r.retryCount

\* mutants of readRetryableItems: the bound off by one, either way
readRetryableItems_TooFew(lines) ==
    SelectSeq(readAllItems(lines),
              LAMBDA r : r.status = "failed" /\ RetryCountOf(r) < DefaultMaxRetries - 1)

readRetryableItems_TooMany(lines) ==
    SelectSeq(readAllItems(lines),
              LAMBDA r : r.status = "failed" /\ RetryCountOf(r) <= DefaultMaxRetries)

readRetryableItems(lines) ==
    SelectSeq(readAllItems(lines),
              LAMBDA r : r.status = "failed" /\ RetryCountOf(r) < DefaultMaxRetries)

(* ------------------------- queue/writer.ts ---------------------------- *)

findIndex(items, id) ==
    IF \E i \in 1..Len(items) : items[i].id = id
    THEN CHOOSE i \in 1..Len(items) :
            items[i].id = id /\ \A j \in 1..(i - 1) : items[j].id # id
    ELSE 0

\* updateItemStatus throws when the file cannot be parsed or the id is absent
UpdateThrows(lines, id) ==
    ReadThrows(lines) \/ findIndex(readAllItems(lines), id) = 0

\* mutant of updateItemStatus: every update counts as a retry
updateItemStatus_AlwaysCounts(lines, id, status, error) ==
    LET items == readAllItems(lines)
        index == findIndex(items, id)
    IN  [items EXCEPT ![index] =
            [items[index] EXCEPT
                !.status = status,
                !.error = error,
                !.retryCount = RetryCountOf(items[index]) + 1]]

\* mutant of updateItemStatus: the error is written only when one is given
updateItemStatus_KeepsError(lines, id, status, error) ==
    LET items == readAllItems(lines)
        index == findIndex(items, id)
    IN  [items EXCEPT ![index] =
            [items[index] EXCEPT
                !.status = status,
                !.error = IF error = NoError THEN @ ELSE error,
                !.retryCount = IF status = "failed"
                               THEN RetryCountOf(items[index]) + 1
                               ELSE items[index].retryCount]]

updateItemStatus(lines, id, status, error) ==
    LET items == readAllItems(lines)
        index == findIndex(items, id)
    IN  [items EXCEPT ![index] =
            [items[index] EXCEPT
                !.status = status,
                !.error = error,
                !.retryCount = IF status = "failed"
                               THEN RetryCountOf(items[index]) + 1
                               ELSE items[index].retryCount]]

markAsProcessing(lines, id) == updateItemStatus(lines, id, "processing", NoError)
markAsProcessed(lines, id) == updateItemStatus(lines, id, "processed", NoError)
markAsFailed(lines, id, error) == updateItemStatus(lines, id, "failed", error)
resetToPending(lines, id) == updateItemStatus(lines, id, "pending", NoError)

\* the records cleanupOldItems keeps
cleanupRemaining(lines, cutoff) ==
    SelectSeq(readAllItems(lines),
              LAMBDA r : r.status # "processed" \/ r.timestamp > cutoff)

(* ----------------------- the handlers' outcomes ----------------------- *)

\* What a handler meets outside the queue: the transcript file, the matcher
\* and the tracker. Every combination is possible.
HandlerEnvs ==
    [transcript : {"missing", "noise", "content", "broken"},
     match      : {"hit", "none", "throws"},
     createOk   : BOOLEAN,
     commentOk  : BOOLEAN,
     msg        : ErrMsgs]

Returned(nonEmpty, commented) ==
    [threw |-> FALSE, msg |-> NoError, nonEmpty |-> nonEmpty, commented |-> commented]

Threw(msg, nonEmpty) ==
    [threw |-> TRUE, msg |-> msg, nonEmpty |-> nonEmpty, commented |-> FALSE]

\* LinearClient.addComment: true when the tracker created the comment; a
\* request that fails is caught inside the client and reported as false
addComment(env) == env.commentOk

\* createIssueFromSession: the identifier of the new issue, or null
createIssueFromSession(env, team) == team /\ env.createOk

processSessionStop(env, team) ==
    IF env.transcript = "broken" THEN Threw(env.msg, FALSE)
    ELSE IF env.transcript = "missing" THEN Returned(FALSE, FALSE)
    ELSE IF env.transcript = "noise" THEN Returned(FALSE, FALSE)
    ELSE IF env.match = "throws" THEN Threw(env.msg, TRUE)
    ELSE IF env.match = "none" /\ ~createIssueFromSession(env, team)
         THEN Returned(TRUE, FALSE)
    ELSE Returned(TRUE, addComment(env))

\* processPrCreated: every tracker call reports failure by its result
processPrCreated(env, team) == Returned(FALSE, FALSE)

isSessionStopItem(item) == item.type = "session_stop"
isPrCreatedItem(item) == item.type = "pr_created"

\* the dispatch of processItem: what the handler of `item` does under `env`
Dispatch(item, env, team) ==
    IF isSessionStopItem(item) THEN processSessionStop(env, team)
    ELSE IF isPrCreatedItem(item) THEN processPrCreated(env, team)
    ELSE Returned(FALSE, FALSE)

(* ------------------------- bookkeeping -------------------------------- *)

IdleInv == [pc |-> "idle", stage |-> "pending", items |-> <<>>, idx |-> 0]

NoHist ==
    [attempts  |-> 0,        \* times processItem took the record
     resets    |-> 0,        \* times resetToPending was applied to it
     writes    |-> <<>>,     \* statuses processItem wrote in the last attempt
     outcome   |-> "none",   \* "none" | "running" | "returned" | "threw"
     msg       |-> NoError,  \* message of the exception of the last attempt
     rcBefore  |-> 0,        \* retry count when the last attempt began
     nonEmpty  |-> FALSE,    \* the last attempt had a non-empty filtered transcript
     commented |-> FALSE,    \* the last attempt created a comment
     everOK    |-> FALSE]    \* some attempt's handler returned normally

Min(a, b) == IF a < b THEN a ELSE b

\* a write of the queue file, seen by chokidar when the watcher is subscribed
Notify(n, subscribed) == IF subscribed THEN Min(n + 1, MaxNotif) ELSE n

Records(lines) == SelectSeq(lines, IsRecord)

InFile(lines, id) == \E i \in 1..Len(lines) : IsRecord(lines[i]) /\ lines[i].id = id

RecordOf(lines, id) ==
    lines[CHOOSE i \in 1..Len(lines) : IsRecord(lines[i]) /\ lines[i].id = id]

StatusIn(lines, id) == IF InFile(lines, id) THEN RecordOf(lines, id).status ELSE "absent"

CurItem(s) == inv[s].items[inv[s].idx]

(* ----------------------- daemon/processor.ts -------------------------- *)

\* what processQueue and processItem read of the items of a list they hold
Taken(items) ==
    [i \in 1..Len(items) |->
        [id |-> items[i].id, type |-> items[i].type, sessionId |-> items[i].sessionId]]

\* The result of running the processor from one point to its next
\* suspension: the file it leaves, the invocation's new position, the id of
\* the record it began (0: none), and how the drain ended, if it did.
Suspended(q, items, idx, stage) ==
    [queue |-> q,
     slot  |-> [pc |-> "handling", stage |-> stage, items |-> Taken(items), idx |-> idx],
     began |-> items[idx].id, end |-> "no", at |-> "handler"]

Ended(q, how) ==
    [queue |-> q, slot |-> IdleInv, began |-> 0, end |-> how, at |-> "processQueue"]

\* an exception leaves processItem: its catch block's markAsFailed threw
Escaped(q) == [Ended(q, "thrown") EXCEPT !.at = "processItem"]

\* processItem up to its await: markAsProcessing, then the dispatch. When
\* markAsProcessing throws, the catch block's markAsFailed reads the same
\* file and throws too, and the exception leaves processItem.
processItemBegin(q, items, idx, stage) ==
    IF UpdateThrows(q, items[idx].id)
    THEN Escaped(q)
    ELSE Suspended(markAsProcessing(q, items[idx].id), items, idx, stage)

\* processQueue from the head of a for loop on: the next item of the list,
\* then the retryable items, then the finally block
processQueueFrom(q, items, idx, stage) ==
    IF idx <= Len(items) THEN processItemBegin(q, items, idx, stage)
    ELSE IF stage = "pending"
    THEN IF ReadThrows(q) THEN Ended(q, "thrown")
         ELSE LET retryableItems == readRetryableItems(q)
              IN  IF Len(retryableItems) > 0
                  THEN processItemBegin(q, retryableItems, 1, "retry")
                  ELSE Ended(q, "returned")
    ELSE Ended(q, "returned")

\* mutant of processQueueEnter: the pending items are taken all at once
\* (Promise.all over processItem), so each is marked processing up front
processQueueEnter_FanOut(q) ==
    IF ReadThrows(q) THEN Ended(q, "thrown")
    ELSE LET pendingItems == readPendingItems(q)
             all == [i \in 1..Len(readAllItems(q)) |->
                        IF readAllItems(q)[i].status = "pending"
                        THEN [readAllItems(q)[i] EXCEPT !.status = "processing"]
                        ELSE readAllItems(q)[i]]
         IN  IF Len(pendingItems) = 0 THEN processQueueFrom(q, pendingItems, 1, "pending")
             ELSE Suspended(all, pendingItems, 1, "pending")

\* processQueue behind its guard: the pending items, in file order
processQueueEnter(q) ==
    IF ReadThrows(q) THEN Ended(q, "thrown")
    ELSE processQueueFrom(q, readPendingItems(q), 1, "pending")

\* mutant of processItemEnd: the catch block marks the record processed
processItemEnd_CatchProcessed(q, id, o) ==
    IF UpdateThrows(q, id) THEN [queue |-> q, wrote |-> "nothing"]
    ELSE [queue |-> markAsProcessed(q, id), wrote |-> "processed"]

\* the rest of processItem once the handler has settled with outcome o
processItemEnd(q, id, o) ==
    IF UpdateThrows(q, id) THEN [queue |-> q, wrote |-> "nothing"]
    ELSE IF o.threw THEN [queue |-> markAsFailed(q, id, o.msg), wrote |-> "failed"]
    ELSE [queue |-> markAsProcessed(q, id), wrote |-> "processed"]

\* mutant of processingAfter: the flag is cleared after the loops, with no
\* finally block
processingAfter_NoFinally(flag, r) == IF r.end = "returned" THEN FALSE ELSE flag

\* the flag of an invocation past the guard: set before the try block, and
\* cleared by the finally block however the invocation ends
processingAfter(flag, r) == IF r.end = "no" THEN flag ELSE FALSE

\* mutant of the guard: processQueue never returns early
Guarded_Never == FALSE

\* the guard of processQueue
Guarded == processing

\* what the handler of `item` can do, over all the environments
Outcomes(item, team) == {Dispatch(item, env, team) : env \in HandlerEnvs}

HistBegin(h, q, id) ==
    IF id = 0 THEN h
    ELSE [h EXCEPT ![id] =
            [@ EXCEPT !.attempts = @ + 1,
                      !.writes = <<"processing">>,
                      !.outcome = "running",
                      !.msg = NoError,
                      !.rcBefore = RetryCountOf(RecordOf(q, id)),
                      !.nonEmpty = FALSE,
                      !.commented = FALSE]]

HistEnd(h, id, o, wrote) ==
    [h EXCEPT ![id] =
        [@ EXCEPT !.writes = IF wrote = "nothing" THEN @ ELSE Append(@, wrote),
                  !.outcome = IF o.threw THEN "threw" ELSE "returned",
                  !.msg = o.msg,
                  !.nonEmpty = o.nonEmpty,
                  !.commented = o.commented,
                  !.everOK = @ \/ ~o.threw]]

\* The processor moves to the state r describes. An exception that leaves
\* processQueue rejects start() (cli.ts exits with status 1) or the change
\* callback's promise (an unhandled rejection ends a Node.js 18 process).
Settle(s, r, h, lc, n, d) ==
    /\ queue' = r.queue
    /\ hist' = HistBegin(h, r.queue, r.began)
    /\ notif' = IF r.end = "thrown" THEN 0 ELSE Notify(n, watcher /\ r.queue # queue)
    /\ inv' = IF r.end = "thrown" THEN [t \in Slots |-> IdleInv]
              ELSE [inv EXCEPT ![s] = r.slot]
    /\ lifecycle' = IF r.end = "thrown" THEN "exited"
                    ELSE IF r.end = "returned" /\ lc = "initial" THEN "watching"
                    ELSE lc
    /\ watcher' = IF r.end = "thrown" THEN FALSE
                  ELSE IF r.end = "returned" /\ lc = "initial" THEN TRUE
                  ELSE watcher
    /\ drains' = IF r.end = "thrown"
                 THEN [d EXCEPT !.aborted = TRUE, !.escaped = (r.at = "processItem")]
                 ELSE IF r.end = "returned" /\ d.clean
                 THEN [d EXCEPT !.count = Min(@ + 1, DrainBound)]
                 ELSE d

\* the bookkeeping of a drain that passes the guard
Entered(d) == [d EXCEPT !.clean = TRUE, !.skipped = FALSE]

FreeSlot == CHOOSE s \in Slots : inv[s].pc = "idle" /\ \A t \in Slots : inv[t].pc = "idle" => s <= t

\* QueueProcessor.start: the caches, the initial drain, then the watcher
Start ==
    /\ lifecycle = "created"
    /\ \E team \in BOOLEAN : cachedTeamId' = team
    /\ LET r == processQueueEnter(queue)
       IN  /\ processing' = processingAfter(TRUE, r)
           /\ Settle(1, r, hist, "initial", notif, Entered(drains))
    /\ UNCHANGED <<call, sessionWatcher, limiter, resolver, attempt, hook, nextId, comments, budget>>

\* the watcher's callback runs only when the event loop is free: no record
\* without a handler is between markAsProcessing and markAsProcessed
EventLoopFree ==
    \A s \in Slots : inv[s].pc = "handling" =>
        (isSessionStopItem(CurItem(s)) \/ isPrCreatedItem(CurItem(s)))

\* a change notification while a drain is in flight: processQueue returns at its guard
OnChangeSkip ==
    /\ lifecycle = "watching" /\ watcher /\ notif > 0 /\ EventLoopFree
    /\ Guarded
    /\ notif' = notif - 1
    /\ drains' = [drains EXCEPT !.skipped = TRUE]
    /\ UNCHANGED <<call, sessionWatcher, limiter, resolver, attempt, hook, queue, nextId, lifecycle, processing, watcher, cachedTeamId,
                   inv, comments, hist, budget>>

\* a change notification that passes the guard and starts a drain
OnChangeDrain ==
    /\ lifecycle = "watching" /\ watcher /\ notif > 0 /\ EventLoopFree
    /\ ~Guarded
    /\ \E s \in Slots : inv[s].pc = "idle"
    /\ LET r == processQueueEnter(queue)
       IN  /\ processing' = processingAfter(TRUE, r)
           /\ Settle(FreeSlot, r, hist, lifecycle, notif - 1,
                     Entered(drains))
    /\ UNCHANGED <<call, sessionWatcher, limiter, resolver, attempt, hook, nextId, cachedTeamId, comments, budget>>

\* the handler of the record in flight settles; processItem writes the
\* result and processQueue goes on to its next suspension or its end
HandlerDone(s) ==
    /\ lifecycle \in {"initial", "watching", "closing"}
    /\ inv[s].pc = "handling"
    /\ \E o \in Outcomes(CurItem(s), cachedTeamId) :
        LET item == CurItem(s)
            e == processItemEnd(queue, item.id, o)
            r == IF e.wrote = "nothing" THEN Escaped(queue)
                 ELSE processQueueFrom(e.queue, inv[s].items, inv[s].idx + 1,
                                       inv[s].stage)
        IN  /\ comments' = IF o.commented
                           THEN Append(comments, [id |-> item.id, session |-> item.sessionId])
                           ELSE comments
            /\ processing' = processingAfter(processing, r)
            /\ Settle(s, r, HistEnd(hist, item.id, o, e.wrote), lifecycle, notif, drains)
    /\ UNCHANGED <<call, sessionWatcher, limiter, resolver, attempt, hook, nextId, cachedTeamId, budget>>

(* ------------------- hooks and the command line ----------------------- *)

Unclean(d) == [d EXCEPT !.clean = FALSE, !.count = 0]

\* a hook's enqueue: one line, a fresh id, the time, status pending
Enqueue(kind, session) ==
    /\ lifecycle # "exited"
    /\ nextId <= MaxAppends
    /\ session = "s1" \/ nextId > 1     \* sessions are interchangeable
    /\ queue' = Append(queue, [id |-> nextId, type |-> kind, timestamp |-> nextId,
                               status |-> "pending", retryCount |-> Undef,
                               error |-> NoError, sessionId |-> session])
    /\ nextId' = nextId + 1
    /\ notif' = Notify(notif, watcher)
    /\ drains' = Unclean(drains)
    /\ UNCHANGED <<call, sessionWatcher, limiter, resolver, attempt, hook, lifecycle, processing, watcher, cachedTeamId, inv, comments,
                   hist, budget>>

\* cli.ts `queue retry <id>`: resetToPending; an exception is logged
QueueRetry(id) ==
    /\ lifecycle # "exited"
    /\ budget.resets < MaxResets
    /\ ~UpdateThrows(queue, id)
    /\ queue' = resetToPending(queue, id)
    /\ hist' = [hist EXCEPT ![id].resets = @ + 1]
    /\ budget' = [budget EXCEPT !.resets = @ + 1]
    /\ notif' = Notify(notif, watcher)
    /\ drains' = Unclean(drains)
    /\ UNCHANGED <<call, sessionWatcher, limiter, resolver, attempt, hook, nextId, lifecycle, processing, watcher, cachedTeamId, inv, comments>>

\* cli.ts `queue clear --hours h`: cleanupOldItems, cutoff = now - h hours;
\* the file is rewritten only when a record was removed
QueueClear(cutoff) ==
    /\ lifecycle # "exited"
    /\ ~ReadThrows(queue)
    /\ Len(cleanupRemaining(queue, cutoff)) < Len(readAllItems(queue))
    /\ queue' = cleanupRemaining(queue, cutoff)
    /\ notif' = Notify(notif, watcher)
    /\ UNCHANGED <<call, sessionWatcher, limiter, resolver, attempt, hook, nextId, lifecycle, processing, watcher, cachedTeamId, inv,
                   comments, hist, drains, budget>>

\* a line that is no record reaches the file (a torn or interleaved write)
WriteMalformed(line) ==
    /\ lifecycle # "exited"
    /\ budget.malformed < MaxMalformed
    /\ queue' = Append(queue, line)
    /\ budget' = [budget EXCEPT !.malformed = @ + 1]
    /\ notif' = Notify(notif, watcher)
    /\ drains' = Unclean(drains)
    /\ UNCHANGED <<call, sessionWatcher, limiter, resolver, attempt, hook, nextId, lifecycle, processing, watcher, cachedTeamId, inv,
                   comments, hist>>

(* ------------- processItem, one suspension point at a time ------------ *)

Transcripts == {"missing", "noise", "content", "broken"}

AttemptIdle ==
    [pc |-> "idle", id |-> 0, type |-> "none", transcript |-> "unread",
     match |-> "none", ops |-> <<>>, commented |-> FALSE, msg |-> NoError,
     userId |-> FALSE, inProgressState |-> FALSE, labelIds |-> FALSE,
     branch |-> <<>>, issue |-> "none", prOps |-> <<>>, reviewState |-> FALSE]

\* processItem's dispatch: where the handler of a record of this kind begins
stepDispatch(type) ==
    IF type = "session_stop" THEN "parseTranscript"
    ELSE IF type = "pr_created" THEN "prResolve"
    ELSE "return"

\* processSessionStop, step 1: parseTranscript gave no entry (no file, or
\* no user or assistant line) -> return; reading the file can throw
stepParse(t) ==
    IF t = "broken" THEN "throw"
    ELSE IF t = "missing" THEN "return"
    ELSE "filterNoise"

\* mutant of stepFilter: the filtered list is not checked for emptiness
stepFilter_NoCheck(t) == "findMatchingIssue"

\* step 2: filterNoise left nothing -> return
stepFilter(t) == IF t = "noise" THEN "return" ELSE "findMatchingIssue"

\* step 4: findMatchingIssue gave an identifier, or null, or threw
stepMatch(m) ==
    IF m = "throws" THEN "throw"
    ELSE IF m = "hit" THEN "ensureIssueSetup"
    ELSE "createIssueFromSession"

\* createIssueFromSession gave an identifier, or null -> return
stepCreate(team, createOk) ==
    IF createIssueFromSession([createOk |-> createOk], team)
    THEN "ensureIssueSetup" ELSE "return"

\* the requests of ensureIssueSetup: each only if its cached value exists
setupOps(userId, inProgressState, labelIds) ==
    (IF userId THEN <<"assignIssue">> ELSE <<>>)
    \o (IF inProgressState THEN <<"updateIssueStatus">> ELSE <<>>)
    \o (IF labelIds THEN <<"addLabels">> ELSE <<>>)

AttemptFrame ==
    UNCHANGED <<call, sessionWatcher, limiter, hook, resolver, nextId, lifecycle, processing, watcher, inv, notif,
                comments, hist, drains, budget>>

\* processItem is called with the first pending record: markAsProcessing,
\* then the dispatch. The caches are whatever initializeLinearCache got.
ItemTaken ==
    /\ attempt.pc \in {"idle", "done"}
    /\ lifecycle = "created"
    /\ Len(readPendingItems(queue)) > 0
    /\ LET item == readPendingItems(queue)[1]
       IN  /\ queue' = markAsProcessing(queue, item.id)
           /\ \E team, user, state, labels \in BOOLEAN :
                /\ cachedTeamId' = team
                /\ attempt' = [AttemptIdle EXCEPT
                                 !.pc = stepDispatch(item.type),
                                 !.id = item.id, !.type = item.type,
                                 !.userId = user, !.inProgressState = state,
                                 !.labelIds = labels]
    /\ AttemptFrame

ParseTranscript ==
    /\ attempt.pc = "parseTranscript"
    /\ \E t \in Transcripts, msg \in ErrMsgs :
          attempt' = [attempt EXCEPT !.transcript = t, !.pc = stepParse(t),
                                     !.msg = IF t = "broken" THEN msg ELSE NoError]
    /\ UNCHANGED <<queue, cachedTeamId>> /\ AttemptFrame

FilterNoise ==
    /\ attempt.pc = "filterNoise"
    /\ attempt' = [attempt EXCEPT !.pc = stepFilter(attempt.transcript)]
    /\ UNCHANGED <<queue, cachedTeamId>> /\ AttemptFrame

FindMatchingIssue ==
    /\ attempt.pc = "findMatchingIssue"
    /\ \E m \in {"hit", "none", "throws"}, msg \in ErrMsgs :
          attempt' = [attempt EXCEPT !.match = m, !.pc = stepMatch(m),
                                     !.ops = Append(@, "findMatchingIssue"),
                                     !.msg = IF m = "throws" THEN msg ELSE NoError]
    /\ UNCHANGED <<queue, cachedTeamId>> /\ AttemptFrame

CreateIssueFromSession ==
    /\ attempt.pc = "createIssueFromSession"
    /\ \E createOk \in BOOLEAN :
          attempt' = [attempt EXCEPT
                        !.pc = stepCreate(cachedTeamId, createOk),
                        !.ops = IF cachedTeamId THEN Append(@, "createIssue") ELSE @]
    /\ UNCHANGED <<queue, cachedTeamId>> /\ AttemptFrame

EnsureIssueSetup ==
    /\ attempt.pc = "ensureIssueSetup"
    /\ attempt' = [attempt EXCEPT
                     !.pc = "summarizeSession",
                     !.ops = @ \o setupOps(attempt.userId, attempt.inProgressState,
                                          attempt.labelIds)]
    /\ UNCHANGED <<queue, cachedTeamId>> /\ AttemptFrame

SummarizeSession ==
    /\ attempt.pc = "summarizeSession"
    /\ attempt' = [attempt EXCEPT !.pc = "addComment",
                                  !.ops = Append(@, "summarizeSession")]
    /\ UNCHANGED <<queue, cachedTeamId>> /\ AttemptFrame

AddComment ==
    /\ attempt.pc = "addComment"
    /\ \E commentOk \in BOOLEAN :
          attempt' = [attempt EXCEPT !.pc = "return",
                                     !.ops = Append(@, "addComment"),
                                     !.commented = addComment([commentOk |-> commentOk])]
    /\ UNCHANGED <<queue, cachedTeamId>> /\ AttemptFrame

\* the handler has returned or thrown: markAsProcessed, or the catch block
ItemSettled ==
    /\ attempt.pc \in {"return", "throw"}
    /\ LET o == IF attempt.pc = "throw"
                THEN Threw(attempt.msg, attempt.transcript = "content")
                ELSE Returned(attempt.transcript = "content", attempt.commented)
       IN  queue' = processItemEnd(queue, attempt.id, o).queue
    /\ attempt' = [attempt EXCEPT !.pc = "done"]
    /\ UNCHANGED cachedTeamId /\ AttemptFrame

(* ------------------------ daemon/manager.ts --------------------------- *)

\* SIGTERM or SIGINT: handleShutdown awaits processor.stop(), which closes
\* the watcher if there is one (and returns at once if there is none: the
\* initial drain is still running), then removes the PID file and calls
\* process.exit(0). Nothing waits for processQueue.
handleShutdown ==
    /\ lifecycle \in {"initial", "watching"}
    /\ EventLoopFree
    /\ lifecycle' = IF watcher THEN "closing" ELSE "exited"
    /\ watcher' = FALSE
    /\ notif' = 0
    /\ inv' = IF watcher THEN inv ELSE [s \in Slots |-> IdleInv]
    /\ processing' = IF watcher THEN processing ELSE FALSE
    /\ UNCHANGED <<call, sessionWatcher, limiter, resolver, attempt, hook, queue, nextId, cachedTeamId, comments, hist, drains, budget>>

\* watcher.close() has resolved: cleanup and process.exit(0)
shutdownExit ==
    /\ lifecycle = "closing"
    /\ EventLoopFree
    /\ lifecycle' = "exited"
    /\ inv' = [s \in Slots |-> IdleInv]
    /\ processing' = FALSE
    /\ UNCHANGED <<call, sessionWatcher, limiter, resolver, attempt, hook, queue, nextId, watcher, cachedTeamId, notif, comments, hist,
                   drains, budget>>

\* DaemonManager.startForeground after the former process has gone: a new
\* process and a new QueueProcessor, over the queue file as it was left
startForeground ==
    /\ lifecycle = "exited"
    /\ budget.restarts < MaxRestarts
    /\ lifecycle' = "created"
    /\ budget' = [budget EXCEPT !.restarts = @ + 1]
    /\ UNCHANGED <<call, sessionWatcher, limiter, resolver, attempt, hook, queue, nextId,
                   processing, watcher, cachedTeamId, inv, notif, comments, hist, drains>>

(* --------------------- the post-tool-use hook -------------------------- *)

\* Text is a sequence of fragments. GitHubPrefix is the literal
\* "https://github.com/"; "/" is a slash; the other fragments hold no slash.
GitHubPrefix == "https://github.com/"
CommandWords == {"gh", "pr", "create", "x"}
GhPrCreate == <<"gh", "pr", "create">>

RECURSIVE Concat(_)
Concat(segs) == IF segs = <<>> THEN <<>> ELSE Head(segs) \o Concat(Tail(segs))

\* the pieces a tool response is put together from: two pull-request URLs,
\* an issue URL, a URL cut before its number, one with no owner, the word
\* pull with a number, and plain text
ResponseSegments ==
    { <<GitHubPrefix, "a", "/", "a", "/", "pull", "/", "7">>,
      <<GitHubPrefix, "a", "/", "a", "/", "pull", "/", "8", "7">>,
      <<GitHubPrefix, "a", "/", "a", "/", "a", "/", "7">>,
      <<GitHubPrefix, "a", "/", "a", "/", "pull", "/">>,
      <<GitHubPrefix, "/", "a", "/", "pull", "/", "7">>,
      <<"a", "/", "pull", "/", "8">>,
      <<"8">>,
      <<"a">> }

Texts(pieces, maxLen) ==
    {Concat(p) : p \in UNION {[1..n -> pieces] : n \in 0..maxLen}}

\* what the hook can find on its standard input: text that is no JSON, or
\* the fields of PostToolUseHookInput that main reads
BadStdin == [valid |-> FALSE]

HookInputs ==
    {BadStdin} \cup
    {[valid |-> TRUE, tool_name |-> t, session_id |-> s,
      hasCommand |-> c # <<"undefined">>,
      command |-> IF c = <<"undefined">> THEN <<>> ELSE c,
      tool_response |-> r] :
        t \in {"Bash", "Edit"}, s \in {"s1"},
        c \in {<<"undefined">>} \cup Texts({<<w>> : w \in CommandWords}, MaxCommandLen),
        r \in Texts(ResponseSegments, MaxSegments)}

\* String.prototype.includes
includes(text, sub) ==
    \E i \in 0..(Len(text) - Len(sub)) : SubSeq(text, i + 1, i + Len(sub)) = sub

NonSlash(t) == t \notin {"/", GitHubPrefix}
Digit(t) == t \in {"7", "8"}

\* the end of the longest run of fragments of one class that starts at i
RECURSIVE RunEnd(_, _, _)
RunEnd(text, i, class) ==
    IF i <= Len(text) /\ ((class = "digit" /\ Digit(text[i])) \/
                          (class = "nonslash" /\ NonSlash(text[i])))
    THEN RunEnd(text, i + 1, class) ELSE i

\* the regular expression of extractPrUrl tried at position i: the index
\* after the match, or 0.  [^\/]+ and \d+ are greedy and what follows each
\* cannot be in its class, so each takes its longest run.
MatchAt(text, i) ==
    IF text[i] # GitHubPrefix THEN 0
    ELSE LET o == RunEnd(text, i + 1, "nonslash")
             r == RunEnd(text, o + 1, "nonslash")
             d == RunEnd(text, r + 3, "digit")
         IN  IF /\ o > i + 1 /\ o <= Len(text) /\ text[o] = "/"
                /\ r > o + 1 /\ r + 2 <= Len(text)
                /\ text[r] = "/" /\ text[r + 1] = "pull" /\ text[r + 2] = "/"
                /\ d > r + 3
             THEN d ELSE 0

NoUrl == <<>>

\* mutant of extractPrUrl: the last match instead of the first
extractPrUrl_Last(output) ==
    IF output = <<>> THEN NoUrl
    ELSE LET starts == {i \in 1..Len(output) : MatchAt(output, i) > 0}
         IN  IF starts = {} THEN NoUrl
             ELSE LET i == CHOOSE k \in starts : \A j \in starts : j <= k
                  IN  SubSeq(output, i, MatchAt(output, i) - 1)

\* extractPrUrl: match[0] of the first match, null for no output or no match
extractPrUrl(output) ==
    IF output = <<>> THEN NoUrl
    ELSE LET starts == {i \in 1..Len(output) : MatchAt(output, i) > 0}
         IN  IF starts = {} THEN NoUrl
             ELSE LET i == CHOOSE k \in starts : \A j \in starts : k <= j
                  IN  SubSeq(output, i, MatchAt(output, i) - 1)

\* lib/queue enqueue: one more line, with a fresh id, the time and status pending
enqueue(lines, n, item) ==
    Append(lines, [id |-> n, type |-> item.type, timestamp |-> n,
                   status |-> "pending", retryCount |-> Undef, error |-> NoError,
                   sessionId |-> item.sessionId, prUrl |-> item.prUrl])

\* lib/stdin continueHook: one more continue decision on standard output
continueHook(n) == n + 1

HookReady == [pc |-> "ready", stdin |-> BadStdin, enqueueOk |-> TRUE,
              continues |-> 0, logged |-> FALSE]

HookExit(q, continues, logged) == [queue |-> q, continues |-> continues, logged |-> logged]

\* mutant of hookCatch: the error is logged and no decision is emitted
hookCatch_Silent(q) == HookExit(q, 0, TRUE)

\* the catch block of main: console.error, then continueHook
hookCatch(q) == HookExit(q, continueHook(0), TRUE)

\* main of the post-tool-use hook, from readStdin to its last continueHook
main(q, n, stdin, enqueueOk) ==
    IF ~stdin.valid THEN hookCatch(q)
    ELSE IF stdin.tool_name # "Bash" THEN HookExit(q, continueHook(0), FALSE)
    ELSE IF stdin.hasCommand /\ includes(stdin.command, GhPrCreate)
               /\ extractPrUrl(stdin.tool_response) # NoUrl
    THEN IF enqueueOk
         THEN HookExit(enqueue(q, n, [type |-> "pr_created",
                                      sessionId |-> stdin.session_id,
                                      prUrl |-> extractPrUrl(stdin.tool_response)]),
                       continueHook(0), FALSE)
         ELSE hookCatch(q)
    ELSE HookExit(q, continueHook(0), FALSE)

\* one execution of the hook process, on any input
PostToolUse ==
    /\ hook.pc = "ready"
    /\ \E stdin \in HookInputs, enqueueOk \in BOOLEAN :
        LET r == main(queue, nextId, stdin, enqueueOk)
        IN  /\ queue' = r.queue
            /\ nextId' = IF r.queue = queue THEN nextId ELSE nextId + 1
            /\ hook' = [pc |-> "exited", stdin |-> stdin, enqueueOk |-> enqueueOk,
                        continues |-> r.continues, logged |-> r.logged]
    /\ UNCHANGED <<call, sessionWatcher, limiter, resolver, attempt, lifecycle, processing, watcher, cachedTeamId, inv,
                   notif, comments, hist, drains, budget>>

(* ------------------------- issue resolution --------------------------- *)

\* A branch name is a sequence of fragments: upper-case letters "A", "B",
\* a lower-case letter "a", the hyphen, the digits "7", "8", and "/".
\* A branch pattern ([X]+-\d+) is given by its set of letters X.
DefaultPattern == [letters |-> {"A", "B"}]      \* ([A-Z]+-\d+)
LowerCasePattern == [letters |-> {"a"}]         \* ([a-z]+-\d+)
Patterns == {DefaultPattern, LowerCasePattern}

BranchSegments ==
    { <<"A", "-", "7">>, <<"B", "-", "8">>, <<"a", "-", "7">>,
      <<"A">>, <<"-">>, <<"8">>, <<"/">> }

Branches == Texts(BranchSegments, MaxBranchSegments)

RECURSIVE RunEndIn(_, _, _)
RunEndIn(text, i, class) ==
    IF i <= Len(text) /\ text[i] \in class THEN RunEndIn(text, i + 1, class) ELSE i

\* a branch pattern tried at position i: the index after the match, or 0
PatternAt(pattern, branch, i) ==
    LET e == RunEndIn(branch, i, pattern.letters)
        d == RunEndIn(branch, e + 1, {"7", "8"})
    IN  IF e > i /\ e <= Len(branch) /\ branch[e] = "-" /\ d > e + 1 THEN d ELSE 0

NoIssue == <<>>

\* String.prototype.match with a pattern that has no g flag: group 1 of
\* the leftmost match, null when there is none
matchGroup1(pattern, branch) ==
    LET starts == {i \in 1..Len(branch) : PatternAt(pattern, branch, i) > 0}
    IN  IF starts = {} THEN NoIssue
        ELSE LET i == CHOOSE k \in starts : \A j \in starts : k <= j
             IN  SubSeq(branch, i, PatternAt(pattern, branch, i) - 1)

\* SessionWatcher.extractIssueId: the configured pattern
extractIssueId(config, branch) == matchGroup1(config.branchPattern, branch)

(* ---- HybridMatcher: scores are thousandths (1000 stands for 1.0) ---- *)

StateNames == {"In Progress", "Done"}

\* calculateStateBonus, on the state names of StateNames
calculateStateBonus(stateName) ==
    IF stateName = "In Progress" THEN 1000
    ELSE IF stateName = "Todo" THEN 500
    ELSE IF stateName = "Done" THEN 0
    ELSE 300

\* mutant of combineScores: the two weights exchanged
combineScores_Swapped(keywordScore, semanticScore, keywordWeight, semanticWeight) ==
    IF semanticScore = Undef THEN keywordScore
    ELSE (keywordScore * semanticWeight + semanticScore * keywordWeight)
             \div (keywordWeight + semanticWeight)

\* combineScores
combineScores(keywordScore, semanticScore, keywordWeight, semanticWeight) ==
    IF semanticScore = Undef THEN keywordScore
    ELSE (keywordScore * keywordWeight + semanticScore * semanticWeight)
             \div (keywordWeight + semanticWeight)

\* a candidate of the keyword search: its keyword score, its state, and the
\* relevance the LLM gives it when asked (Undef: it does not list it)
\* what calculateKeywordScore counts for one issue: keywords found in the
\* title, keywords found only in the description, the project name found,
\* and the words of the primary request found among the issue's words
KeywordSignals ==
    {s \in [titleHits : 0..MaxTitleHits, bodyHits : 0..2, projectHit : BOOLEAN,
             requestWords : 0..2, requestMatches : 0..2] :
        s.requestMatches <= s.requestWords}

\* KeywordSearcher.calculateKeywordScore
calculateKeywordScore(s) ==
    LET keywords == 150 * s.titleHits + 50 * s.bodyHits
        project == IF s.projectHit THEN 200 ELSE 0
        request == IF s.requestWords > 0
                   THEN (s.requestMatches * 300) \div s.requestWords ELSE 0
    IN  Min(1000, keywords + project + request)

KeywordScores == {calculateKeywordScore(s) : s \in KeywordSignals}

Candidates ==
    [keywordScore : {200, 550, 650, 1000} \cap KeywordScores, state : StateNames,
     relevance : {Undef, 200, 900}]

\* the search results come sorted by keyword score, best first
CandidateLists ==
    {l \in UNION {[1..n -> Candidates] : n \in 0..MaxResults} :
        \A i \in 1..(Len(l) - 1) : l[i].keywordScore >= l[i + 1].keywordScore}

Identified(list) ==
    [i \in 1..Len(list) |->
        [identifier |-> i, keywordScore |-> list[i].keywordScore,
         state |-> list[i].state, relevance |-> list[i].relevance]]

\* what the matcher meets: the results of the keyword search (or, when it
\* finds nothing, of the recent-issues query), and whether the LLM answers
MatchEnvs ==
    [results : CandidateLists, viaRecent : BOOLEAN, llmFails : BOOLEAN]

MatcherConfigs ==
    [keywordWeight : {DefaultKeywordWeight}, semanticWeight : {DefaultSemanticWeight},
     confidenceThreshold : {650, DefaultConfidenceThreshold},
     maxCandidates : {1, DefaultMaxCandidates}, enableSemantic : BOOLEAN]

\* mutant of semanticScore: a failure of the LLM is not noticed
semanticScore_Unguarded(candidate, llmFails) ==
    IF candidate.relevance = Undef \/ candidate.relevance < MinRelevanceScore
    THEN Undef ELSE candidate.relevance

\* SemanticSearcher.findMatchingIssues: the relevance of each candidate the
\* LLM lists with at least minRelevanceScore; nothing when the LLM fails
semanticScore(candidate, llmFails) ==
    IF llmFails \/ candidate.relevance = Undef \/ candidate.relevance < MinRelevanceScore
    THEN Undef ELSE candidate.relevance

\* Array.prototype.sort((a, b) => b.confidence - a.confidence): stable
RECURSIVE InsertByConfidence(_, _)
InsertByConfidence(sorted, r) ==
    IF sorted = <<>> THEN <<r>>
    ELSE IF Head(sorted).confidence >= r.confidence
         THEN <<Head(sorted)>> \o InsertByConfidence(Tail(sorted), r)
         ELSE <<r>> \o sorted

RECURSIVE SortByConfidence(_)
SortByConfidence(results) ==
    IF results = <<>> THEN <<>>
    ELSE InsertByConfidence(SortByConfidence(SubSeq(results, 1, Len(results) - 1)),
                            results[Len(results)])

\* HybridMatcher.processResults
processResults(candidates, withSemantic, llmFails, config) ==
    SortByConfidence(
        [i \in 1..Len(candidates) |->
            LET c == candidates[i]
                sem == IF withSemantic THEN semanticScore(c, llmFails) ELSE Undef
            IN  [identifier |-> c.identifier,
                 confidence |-> combineScores(
                     c.keywordScore + (calculateStateBonus(c.state) * 100) \div 1000,
                     sem, config.keywordWeight, config.semanticWeight),
                 matchType |-> IF sem # Undef /\ c.keywordScore > 300 THEN "hybrid"
                               ELSE IF sem # Undef THEN "semantic" ELSE "keyword",
                 keywordScore |-> c.keywordScore,
                 semanticScore |-> sem]])

\* HybridMatcher.findMatches: the results, and the calls issued in order
findMatches(env, config) ==
    LET found == Identified(env.results)
    IN  IF env.viaRecent
        THEN [results |-> processResults(found, FALSE, FALSE, config),
              ops |-> <<"acquire", "search", "searchRecentIssues">>]
        ELSE IF Len(found) = 0
        THEN [results |-> <<>>, ops |-> <<"acquire", "search", "searchRecentIssues">>]
        ELSE LET candidates == SubSeq(found, 1, Min(Len(found), config.maxCandidates))
             IN  IF config.enableSemantic
                 THEN [results |-> processResults(candidates, TRUE, env.llmFails, config),
                       ops |-> <<"acquire", "search", "acquire", "matchIssues">>]
                 ELSE [results |-> processResults(candidates, FALSE, FALSE, config),
                       ops |-> <<"acquire", "search">>]

NoMatch == [identifier |-> 0]

\* mutant of findMatch: the best match is returned whatever its confidence
findMatch_NoThreshold(env, config) ==
    LET m == findMatches(env, config)
    IN  IF Len(m.results) = 0 THEN [match |-> NoMatch, ops |-> m.ops]
        ELSE [match |-> m.results[1], ops |-> m.ops]

\* HybridMatcher.findMatch
findMatch(env, config) ==
    LET m == findMatches(env, config)
    IN  IF Len(m.results) = 0 THEN [match |-> NoMatch, ops |-> m.ops]
        ELSE IF m.results[1].confidence >= config.confidenceThreshold
        THEN [match |-> m.results[1], ops |-> m.ops]
        ELSE [match |-> NoMatch, ops |-> m.ops]

DefaultMatcherConfig ==
    [keywordWeight |-> DefaultKeywordWeight, semanticWeight |-> DefaultSemanticWeight,
     confidenceThreshold |-> DefaultConfidenceThreshold,
     maxCandidates |-> DefaultMaxCandidates, enableSemantic |-> TRUE]

NullContent == [present |-> FALSE, hasUserMessages |-> FALSE, gitBranch |-> <<>>]

Resolved(branchId, match, ops) == [branchId |-> branchId, match |-> match, ops |-> ops]

\* matching/index.ts findMatchingIssue: the branch of the content against
\* the pattern written in the function, then the matcher it constructs
\* with the default configuration
findMatchingIssue(content, env) ==
    IF content.present /\ content.gitBranch # <<>>
          /\ matchGroup1(DefaultPattern, content.gitBranch) # NoIssue
    THEN Resolved(matchGroup1(DefaultPattern, content.gitBranch), NoMatch, <<>>)
    ELSE IF ~content.present \/ ~content.hasUserMessages
    THEN Resolved(NoIssue, NoMatch, <<>>)
    ELSE LET r == findMatch(env, DefaultMatcherConfig)
         IN  Resolved(NoIssue, r.match, r.ops)

\* SessionWatcher.processLogLine, the resolution of the issue: the branch
\* first; the matcher only without a branch hit, when matching is enabled
\* and the session has given enough context
\* (the matcher with the default matching values of the configuration)
resolveLogLine(config, branch, context, env) ==
    LET issueId == IF branch # <<>> THEN extractIssueId(config, branch) ELSE NoIssue
    IN  IF issueId = NoIssue /\ config.matching /\ context = "enough"
        THEN LET r == findMatch(env, DefaultMatcherConfig)
             IN  Resolved(NoIssue, r.match, r.ops)
        ELSE Resolved(issueId, NoMatch, <<>>)

\* the matcher's surroundings in the resolutions: nothing found, a
\* confident candidate, a weak one
FewMatchEnvs ==
    {[results |-> l, viaRecent |-> FALSE, llmFails |-> FALSE] :
        l \in {<<>>, <<[keywordScore |-> 1000, state |-> "In Progress", relevance |-> 900]>>,
               <<[keywordScore |-> 200, state |-> "Done", relevance |-> Undef]>>}}

ResolverReady ==
    [pc |-> "ready", via |-> "none", branch |-> <<>>, branchId |-> NoIssue,
     match |-> NoMatch, ops |-> <<>>]

ResolverFrame ==
    UNCHANGED <<call, sessionWatcher, limiter, hook, attempt, queue, nextId, lifecycle, processing, watcher,
                cachedTeamId, inv, notif, comments, hist, drains, budget>>

\* HybridMatcher.findMatches on every search result and configuration
FindMatches ==
    /\ resolver.pc = "ready"
    /\ \E env \in MatchEnvs, config \in MatcherConfigs :
        /\ env.viaRecent => (0 < Len(env.results) /\ Len(env.results) <= config.maxCandidates)
        /\ LET r == findMatches(env, config)
           IN  resolver' = [pc |-> "done", via |-> "findMatches", env |-> env,
                            config |-> config, branch |-> <<>>, branchId |-> NoIssue,
                            match |-> NoMatch, results |-> r.results, ops |-> r.ops]
    /\ ResolverFrame

\* the processor resolves the issue of a record: processSessionStop passes
\* the extracted content (with the session's branch), processPrCreated null
ResolveIssue ==
    /\ resolver.pc = "ready"
    /\ \E caller \in {"session_stop", "pr_created"}, pattern \in Patterns,
          branch \in Branches, hasUser \in BOOLEAN, env \in FewMatchEnvs :
        LET content == IF caller = "pr_created" THEN NullContent
                       ELSE [present |-> TRUE, hasUserMessages |-> hasUser,
                             gitBranch |-> branch]
            r == findMatchingIssue(content, env)
        IN  resolver' = [pc |-> "done", via |-> "findMatchingIssue", caller |-> caller,
                         config |-> [branchPattern |-> pattern, matching |-> TRUE],
                         branch |-> branch, hasUserMessages |-> hasUser,
                         branchId |-> r.branchId, match |-> r.match, ops |-> r.ops]
    /\ ResolverFrame

\* the session watcher resolves the issue of a log line
WatcherResolve ==
    /\ resolver.pc = "ready"
    /\ \E pattern \in Patterns, branch \in Branches, matching \in BOOLEAN,
          context \in {"short", "enough"}, env \in FewMatchEnvs :
        LET config == [branchPattern |-> pattern, matching |-> matching]
            r == resolveLogLine(config, branch, context, env)
        IN  resolver' = [pc |-> "done", via |-> "processLogLine", caller |-> "watcher",
                         config |-> config, branch |-> branch,
                         hasUserMessages |-> context = "enough",
                         branchId |-> r.branchId, match |-> r.match, ops |-> r.ops]
    /\ ResolverFrame

\* HybridMatcher.findMatch on every search result and configuration
FindMatch ==
    /\ resolver.pc = "ready"
    /\ \E env \in MatchEnvs, config \in MatcherConfigs :
        /\ env.viaRecent => (0 < Len(env.results) /\ Len(env.results) <= config.maxCandidates)
        /\ LET r == findMatch(env, config)
           IN  resolver' = [pc |-> "done", via |-> "findMatch", env |-> env,
                            config |-> config, branch |-> <<>>, branchId |-> NoIssue,
                            match |-> r.match, ops |-> r.ops]
    /\ ResolverFrame

(* ----------- processPrCreated, one suspension point at a time ---------- *)

\* the branch the session of a pr_created record is on
PrBranches == {<<"A", "-", "7">>, <<"/">>}

\* after the resolution: create a placeholder, give up, or attach
stepPrResolved(issueId, team) ==
    IF issueId = NoIssue /\ team THEN "prCreateIssue"
    ELSE IF issueId = NoIssue THEN "return"
    ELSE "attachLink"

\* attachLink(issueId, item.prUrl, "Pull Request")
stepPrAttached(ops) == Append(ops, "attachLink")

\* findMatchingIssue(null, item.cwd)
PrResolve ==
    /\ attempt.pc = "prResolve"
    /\ \E branch \in PrBranches, env \in FewMatchEnvs :
        LET r == findMatchingIssue(NullContent, env)
        IN  attempt' = [attempt EXCEPT
                          !.branch = branch,
                          !.issue = IF r.branchId = NoIssue /\ r.match.identifier = 0
                                    THEN "none" ELSE "resolved",
                          !.prOps = <<"findMatchingIssue">> \o r.ops,
                          !.pc = stepPrResolved(
                                    IF r.match.identifier = 0 THEN r.branchId
                                    ELSE <<"matched">>, cachedTeamId)]
    /\ UNCHANGED <<queue, cachedTeamId>> /\ AttemptFrame

\* createIssue for the pull request: the new issue, or null -> return
PrCreateIssue ==
    /\ attempt.pc = "prCreateIssue"
    /\ \E createOk \in BOOLEAN :
        attempt' = [attempt EXCEPT
                      !.prOps = Append(@, "createIssue"),
                      !.issue = IF createOk THEN "placeholder" ELSE "none",
                      !.pc = IF createOk THEN "attachLink" ELSE "return"]
    /\ UNCHANGED <<queue, cachedTeamId>> /\ AttemptFrame

PrAttachLink ==
    /\ attempt.pc = "attachLink"
    /\ attempt' = [attempt EXCEPT !.prOps = stepPrAttached(@), !.pc = "prReview"]
    /\ UNCHANGED <<queue, cachedTeamId>> /\ AttemptFrame

\* getStateId("In Review") || getStateId("review"), then updateIssueStatus
PrReview ==
    /\ attempt.pc = "prReview"
    /\ \E reviewState \in BOOLEAN :
        attempt' = [attempt EXCEPT
                      !.reviewState = reviewState,
                      !.prOps = IF reviewState THEN Append(@, "updateIssueStatus") ELSE @,
                      !.pc = "return"]
    /\ UNCHANGED <<queue, cachedTeamId>> /\ AttemptFrame

(* ------------- queue/writer.ts, one call on every queue file ----------- *)

\* the records a line with this id can hold
FileRecords(id) ==
    [id : {id}, type : {"session_stop"}, timestamp : 1..MaxHours, status : Statuses,
     retryCount : {Undef, 2}, error : {NoError, "ENOENT"}, sessionId : {"s1"}]

\* queue.jsonl: up to MaxLines lines, each a record with an id of its own,
\* or blank
QueueFiles ==
    UNION {{f \in [1..n -> UNION {FileRecords(i) : i \in 1..MaxLines} \cup {BlankLine}] :
                \A i \in 1..n : f[i] = BlankLine \/ f[i].id = i} : n \in 0..MaxLines}

\* parseInt(options.hours, 10) of a text that is no number
NotANumber == Undef - 1

\* Date.now(), in hours: later than every timestamp
Now == MaxHours + 1

\* cleanupOldItems(hoursOld): cutoff = Date.now() - hoursOld hours; a
\* record stays unless it is processed and its time is not > cutoff (no
\* time is > NaN); the file is written only when a record was removed
cleanupOldItems(lines, hoursOld) ==
    LET items == readAllItems(lines)
        remaining == IF hoursOld = NotANumber
                     THEN SelectSeq(items, LAMBDA r : r.status # "processed")
                     ELSE cleanupRemaining(lines, Now - hoursOld)
        removed == Len(items) - Len(remaining)
    IN  [removed |-> removed, file |-> IF removed > 0 THEN remaining ELSE lines]

CallReady == [pc |-> "ready", fn |-> "none", before |-> <<>>, after |-> <<>>]

CallFrame ==
    UNCHANGED <<sessionWatcher, limiter, resolver, hook, attempt, queue, nextId, lifecycle,
                processing, watcher, cachedTeamId, inv, notif, comments, hist, drains,
                budget>>

\* updateItemStatus(id, status, error) on a queue file
UpdateItemStatus ==
    /\ call.pc = "ready"
    /\ \E file \in QueueFiles, id \in 1..(MaxLines + 1), status \in Statuses,
          error \in {NoError, "TypeError"} :
        call' = [pc |-> "done", fn |-> "updateItemStatus", before |-> file,
                 id |-> id, status |-> status, error |-> error,
                 threw |-> UpdateThrows(file, id),
                 after |-> IF UpdateThrows(file, id) THEN file
                           ELSE updateItemStatus(file, id, status, error)]
    /\ CallFrame

\* `queue clear --hours <hours>`: cleanupOldItems(parseInt(hours))
CleanupOldItems ==
    /\ call.pc = "ready"
    /\ \E file \in QueueFiles, hours \in (0..MaxHours) \cup {NotANumber} :
        LET r == cleanupOldItems(file, hours)
        IN  call' = [pc |-> "done", fn |-> "cleanupOldItems", before |-> file,
                     hours |-> hours, after |-> r.file, removed |-> r.removed]
    /\ CallFrame

(* ------------------ ensureIssueSetup: the labels ----------------------- *)

\* the labels of the team, as initializeLinearCache can find them
TeamLabels ==
    {[id |-> "l1", name |-> "frontend"], [id |-> "l2", name |-> "Bug"],
     [id |-> "l3", name |-> "Urgent"]}

\* the label names LABEL_PATTERNS can give for a cwd and a content
PatternLabels == {"Frontend", "Bug", "Feature"}

\* the labels an issue can carry
IssueLabelIds == {"l1", "l2", "l3", "l4"}

toLowerCase(name) ==
    CASE name = "Frontend" -> "frontend"
      [] name = "Bug" -> "bug"
      [] name = "Feature" -> "feature"
      [] name = "Urgent" -> "urgent"
      [] OTHER -> name

\* getLabelIds, after the patterns: the id of the cached label of each
\* matched name, names compared without case; other names give nothing
getLabelIds(matchedLabelNames, cachedLabels) ==
    {l.id : l \in {c \in cachedLabels :
                      \E name \in matchedLabelNames :
                          toLowerCase(c.name) = toLowerCase(name)}}

\* LinearClient.addLabels: the issue is fetched, its labels and the new
\* ones are merged, and the merged set is written; a request that fails is
\* caught and reported as false
addLabels(existing, labelIds, fetchOk, updateOk) ==
    IF fetchOk /\ updateOk
    THEN [labels |-> existing \cup labelIds, ok |-> TRUE]
    ELSE [labels |-> existing, ok |-> FALSE]

\* the last step of ensureIssueSetup on an issue with these labels
EnsureLabels ==
    /\ call.pc = "ready"
    /\ \E existing \in SUBSET IssueLabelIds, cachedLabels \in SUBSET TeamLabels,
          matched \in SUBSET PatternLabels, fetchOk \in BOOLEAN, updateOk \in BOOLEAN :
        LET labelIds == getLabelIds(matched, cachedLabels)
            r == IF labelIds # {} THEN addLabels(existing, labelIds, fetchOk, updateOk)
                 ELSE [labels |-> existing, ok |-> TRUE]
        IN  call' = [pc |-> "done", fn |-> "ensureIssueSetup", before |-> existing,
                     cachedLabels |-> cachedLabels, matched |-> matched,
                     asked |-> labelIds # {}, ok |-> r.ok, after |-> r.labels]
    /\ CallFrame

(* ------- queue/writer.ts: the read and the write as two steps ---------- *)

\* the ids cleanupOldItems has filtered out so far
DroppedSoFar == IF "dropped" \in DOMAIN call THEN call.dropped ELSE {}

RewriteFrame ==
    UNCHANGED <<sessionWatcher, limiter, resolver, hook, attempt, nextId, lifecycle,
                processing, watcher, cachedTeamId, inv, notif, comments, hist, drains,
                budget>>

\* updateItemStatus or cleanupOldItems up to its readAllItems: the content
\* of the file is now in memory
RewriteRead ==
    /\ call.pc = "ready"
    /\ ~ReadThrows(queue)
    /\ \E fn \in {"updateItemStatus", "cleanupOldItems"}, id \in IDs,
          status \in {"processing", "processed"} :
        /\ fn = "updateItemStatus" => ~UpdateThrows(queue, id)
        /\ fn = "cleanupOldItems" => (id = 1 /\ status = "processed")
        /\ call' = [pc |-> "read", fn |-> fn, before |-> queue, after |-> <<>>,
                    id |-> id, status |-> status, dropped |-> DroppedSoFar]
    /\ UNCHANGED queue
    /\ RewriteFrame

\* writeAllItems: the file is replaced by what was computed from the
\* content read (cleanupOldItems writes only when it removed a record)
RewriteWrite ==
    /\ call.pc = "read"
    /\ LET r == cleanupOldItems(call.before, 0)
       IN  /\ queue' = IF call.fn = "updateItemStatus"
                       THEN updateItemStatus(call.before, call.id, call.status, NoError)
                       ELSE IF r.removed > 0 THEN r.file ELSE queue
           /\ call' = [pc |-> "ready", fn |-> "none", before |-> <<>>, after |-> <<>>,
                       dropped |-> IF call.fn = "cleanupOldItems"
                                   THEN call.dropped \cup
                                        {id \in IDs : InFile(call.before, id)
                                                      /\ ~InFile(r.file, id)}
                                   ELSE call.dropped]
    /\ RewriteFrame

(* ----------------- transcript: the noise filter ------------------------ *)

\* NOISE_PATTERNS, each as the fragment of text it matches
NOISE_PATTERNS ==
    {"<system-reminder>", "<local-command>", "<user-prompt-submit-hook>", "subagents/"}

\* the entries parseTranscript keeps: a user entry with its text, an
\* assistant entry with its blocks (text blocks and tool_use blocks)
LogEntries ==
    [type : {"user"}, content : {<<"fix the login">>, <<"<system-reminder>">>,
                                 <<"fix the login", "subagents/">>}]
    \cup [type : {"assistant"},
          content : {<<[type |-> "text", text |-> <<"fix the login">>]>>,
                     <<[type |-> "text", text |-> <<"<local-command>">>]>>,
                     <<[type |-> "tool_use", text |-> <<"<system-reminder>">>]>>,
                     <<[type |-> "text", text |-> <<"fix the login">>],
                       [type |-> "text", text |-> <<"subagents/">>]>>,
                     <<>>}]

RECURSIVE joinBlocks(_)
joinBlocks(texts) ==
    IF texts = <<>> THEN <<>>
    ELSE IF Len(texts) = 1 THEN texts[1]
    ELSE texts[1] \o <<"\n">> \o joinBlocks(Tail(texts))

\* getEntryContent: the text of a user entry; the texts of the text blocks
\* of an assistant entry, joined by newlines
getEntryContent(entry) ==
    IF entry.type = "user" THEN entry.content
    ELSE LET blocks == SelectSeq(entry.content,
                                 LAMBDA b : b.type = "text" /\ b.text # <<>>)
         IN  joinBlocks([i \in 1..Len(blocks) |-> blocks[i].text])

\* mutant of filterNoise: the first entry kept is dropped as well
filterNoise_DropFirst(entries) ==
    LET kept == SelectSeq(entries,
                          LAMBDA entry :
                              ~\E k \in 1..Len(getEntryContent(entry)) :
                                  getEntryContent(entry)[k] \in NOISE_PATTERNS)
    IN  IF kept = <<>> THEN kept ELSE Tail(kept)

\* filterNoise: the entries whose content matches no noise pattern
filterNoise(entries) ==
    SelectSeq(entries,
              LAMBDA entry :
                  ~\E k \in 1..Len(getEntryContent(entry)) :
                      getEntryContent(entry)[k] \in NOISE_PATTERNS)

\* filterNoise on a parsed transcript, and once more on its result
FilterTwice ==
    /\ call.pc = "ready"
    /\ \E entries \in UNION {[1..n -> LogEntries] : n \in 0..MaxEntries} :
        call' = [pc |-> "done", fn |-> "filterNoise", before |-> entries,
                 once |-> filterNoise(entries),
                 after |-> filterNoise(filterNoise(entries))]
    /\ CallFrame

(* -- RateLimiter: time in ticks, tokens in TicksPerMinute-ths of a token -- *)

OneToken == TicksPerMinute

\* the calls of acquire() that can be in flight at once: one per change
\* handler of the session watcher, which shares one matcher and one bucket
Callers == {1, 2}

\* a caller: where it is in acquire(), when its sleep ends, and whether a
\* whole token was in the bucket when acquire() took one for it
CallerIdle == [pc |-> "idle", wakeAt |-> 0, whole |-> TRUE]

\* new RateLimiter(maxPerMinute): the bucket is full; no matcher runs
LimiterReady ==
    [tokens |-> MaxPerMinute * OneToken, lastRefill |-> 0, now |-> 0, wakeAt |-> 0,
     pc |-> "idle", todo |-> <<>>, taken |-> 0, calls |-> <<>>, invocations |-> 0,
     callers |-> [c \in Callers |-> CallerIdle]]

\* RateLimiter.refill: maxPerMinute / 60 tokens per second, up to maxTokens
refill(l) ==
    [l EXCEPT !.tokens = Min(MaxPerMinute * OneToken,
                             l.tokens + (l.now - l.lastRefill) * MaxPerMinute),
              !.lastRefill = l.now]

\* the sleep of acquire, (1 - tokens) / refillRate, in whole ticks
waitTime(l) == ((OneToken - l.tokens) + MaxPerMinute - 1) \div MaxPerMinute

\* what one findMatches does, in order: the token, the queries of
\* KeywordSearcher.search (one per strategy with a text), then the
\* recent-issues query when nothing was found, or a second token and the
\* LLM request when the semantic searcher exists
matcherSteps(queries, found, semantic) ==
    <<"acquire">> \o [i \in 1..queries |-> "searchIssues"]
        \o (IF ~found THEN <<"getRecentIssues">>
            ELSE IF semantic THEN <<"acquire", "matchIssues">> ELSE <<>>)

LimiterFrame ==
    UNCHANGED <<call, sessionWatcher, resolver, hook, attempt, queue, nextId, lifecycle, processing, watcher,
                cachedTeamId, inv, notif, comments, hist, drains, budget>>

\* time passes; the calls older than a minute are forgotten
Tick ==
    /\ limiter.now < MaxTime
    /\ limiter' = [limiter EXCEPT
           !.now = @ + 1,
           !.calls = SelectSeq(@, LAMBDA t : t > limiter.now + 1 - TicksPerMinute)]
    /\ LimiterFrame

\* findMatches is called
MatcherInvoked ==
    /\ limiter.pc \in {"idle", "returned"}
    /\ limiter.invocations < MaxInvocations
    /\ \E queries \in 1..3, found \in BOOLEAN, semantic \in BOOLEAN :
        limiter' = [limiter EXCEPT !.pc = "running", !.taken = 0,
                                   !.todo = matcherSteps(queries, found, semantic),
                                   !.invocations = @ + 1]
    /\ LimiterFrame

\* RateLimiter.acquire up to its await
LimiterAcquire ==
    /\ limiter.pc = "running" /\ limiter.todo # <<>> /\ Head(limiter.todo) = "acquire"
    /\ LET l == refill(limiter)
       IN  limiter' = IF l.tokens < OneToken
                      THEN [l EXCEPT !.pc = "sleeping", !.wakeAt = l.now + waitTime(l)]
                      ELSE [l EXCEPT !.tokens = @ - OneToken, !.taken = @ + 1,
                                     !.todo = Tail(@)]
    /\ LimiterFrame

\* RateLimiter.acquire after its sleep
LimiterWake ==
    /\ limiter.pc = "sleeping" /\ limiter.now >= limiter.wakeAt
    /\ limiter' = [refill(limiter) EXCEPT !.tokens = @ - OneToken, !.taken = @ + 1,
                                          !.todo = Tail(@), !.pc = "running",
                                          !.wakeAt = 0]
    /\ LimiterFrame

\* one request to the tracker or to the LLM
MatcherCall ==
    /\ limiter.pc = "running" /\ limiter.todo # <<>> /\ Head(limiter.todo) # "acquire"
    /\ limiter' = [limiter EXCEPT !.calls = Append(@, limiter.now), !.todo = Tail(@)]
    /\ LimiterFrame

\* findMatches returns
MatcherReturn ==
    /\ limiter.pc = "running" /\ limiter.todo = <<>>
    /\ limiter' = [limiter EXCEPT !.pc = "returned"]
    /\ LimiterFrame

\* acquire() by caller c up to its await: the token is taken at once when
\* there is one, else the caller sleeps for the time one token takes
acquire(c) ==
    /\ limiter.callers[c].pc = "idle"
    /\ LET l == refill(limiter)
       IN  limiter' = IF l.tokens < OneToken
                      THEN [l EXCEPT !.callers[c] =
                              [pc |-> "sleeping", wakeAt |-> l.now + waitTime(l),
                               whole |-> TRUE]]
                      ELSE [l EXCEPT !.tokens = @ - OneToken,
                                     !.callers[c] = [pc |-> "returned", wakeAt |-> 0,
                                                     whole |-> TRUE]]
    /\ LimiterFrame

\* acquire() by caller c after its sleep: refill, then one token less
acquireWake(c) ==
    /\ limiter.callers[c].pc = "sleeping" /\ limiter.now >= limiter.callers[c].wakeAt
    /\ LET l == refill(limiter)
       IN  limiter' = [l EXCEPT !.tokens = @ - OneToken,
                                !.callers[c] = [pc |-> "returned", wakeAt |-> 0,
                                                whole |-> l.tokens >= OneToken]]
    /\ LimiterFrame

\* tryAcquire(): a token is taken only when there is one
tryAcquire ==
    /\ LET l == refill(limiter)
       IN  limiter' = IF l.tokens >= OneToken THEN [l EXCEPT !.tokens = @ - OneToken]
                      ELSE l
    /\ limiter' # limiter
    /\ LimiterFrame

\* the caller goes on, and may call acquire() again
acquireReturned(c) ==
    /\ limiter.callers[c].pc = "returned"
    /\ limiter' = [limiter EXCEPT !.callers[c] = CallerIdle]
    /\ LimiterFrame

(* ------------ SessionWatcher: the match cache of one session ----------- *)

Handlers == 1..MaxEvents

\* matchCache.has(sessionId) is false
NotCached == Undef

\* what findMatch can give for the session: no match (null), or an issue
MatchOutcomes == {0, 1, 2}

HandlerIdle == [pc |-> "idle", ret |-> 0, cached |-> FALSE]

\* a change handler that reads no file: it holds no lines
ReaderIdle == [pc |-> "idle", lines |-> <<>>]

\* besides the cache, one session file: its lines (each one character and
\* a newline; a wide character takes two bytes in UTF-8), whether chokidar
\* has reported it, the entry of filePositions, the change event
\* outstanding, the lines each change handler holds, and the lines passed
\* to processLogLine, in the order of the calls
WatcherReady ==
    [sessionEntries |-> 0, matchCache |-> NotCached,
     handlers |-> [h \in Handlers |-> HandlerIdle], ops |-> <<>>,
     file |-> <<>>, seen |-> FALSE, seenAt |-> 0, position |-> 0, change |-> FALSE,
     readers |-> [h \in Handlers |-> ReaderIdle], delivered |-> <<>>]

WatcherFrame ==
    UNCHANGED <<call, limiter, resolver, hook, attempt, queue, nextId, lifecycle, processing,
                watcher, cachedTeamId, inv, notif, comments, hist, drains, budget>>

\* handleFileChange on one new line of the session whose branch holds no
\* identifier, up to the first await: processLogLine records the entry and
\* findMatchingIssue answers from the cache, gives up on too little
\* context, or calls the matcher
handleFileChange(h) ==
    /\ sessionWatcher.handlers[h].pc = "idle"
    /\ \E longRequest \in BOOLEAN :
        LET w == sessionWatcher
            entries == Min(w.sessionEntries + 1, 2)
        IN  sessionWatcher' =
               IF w.matchCache # NotCached
               THEN [w EXCEPT !.sessionEntries = entries,
                              !.handlers[h] = [pc |-> "done", ret |-> w.matchCache,
                                               cached |-> TRUE]]
               ELSE IF entries < 2 \/ ~longRequest
               THEN [w EXCEPT !.sessionEntries = entries,
                              !.handlers[h] = [pc |-> "done", ret |-> 0, cached |-> FALSE]]
               ELSE [w EXCEPT !.sessionEntries = entries,
                              !.handlers[h].pc = "findMatch",
                              !.ops = Append(@, "findMatch")]
    /\ WatcherFrame

\* the matcher of handler h issues its next call: the search, then the LLM
matcherCall(h) ==
    /\ sessionWatcher.handlers[h].pc \in {"findMatch", "search"}
    /\ sessionWatcher' =
          IF sessionWatcher.handlers[h].pc = "findMatch"
          THEN [sessionWatcher EXCEPT !.handlers[h].pc = "search",
                                      !.ops = Append(@, "search")]
          ELSE [sessionWatcher EXCEPT !.handlers[h].pc = "matchIssues",
                                      !.ops = Append(@, "matchIssues")]
    /\ WatcherFrame

\* findMatch returns to findMatchingIssue, which caches the result; or it
\* throws, and the catch block logs and returns null
matcherReturn(h) ==
    /\ sessionWatcher.handlers[h].pc = "matchIssues"
    /\ \E result \in MatchOutcomes, throws \in BOOLEAN :
        sessionWatcher' =
           IF throws
           THEN [sessionWatcher EXCEPT
                    !.handlers[h] = [pc |-> "done", ret |-> 0, cached |-> FALSE]]
           ELSE [sessionWatcher EXCEPT
                    !.matchCache = result,
                    !.handlers[h] = [pc |-> "done", ret |-> result, cached |-> FALSE],
                    !.ops = Append(@, "result")]
    /\ WatcherFrame

(* ------------- SessionWatcher: the lines of one session file ----------- *)

\* content.length: UTF-16 code units
lengthOf(file) == 2 * Len(file)

\* statSync(filePath).size: bytes
sizeOf(file) == 2 * Len(file) + Cardinality({i \in 1..Len(file) : file[i].wide})

\* content.slice(position).split("\n").filter(line => line.trim()): the
\* lines whose text begins at or after the position, by their numbers
newLines(file, position) ==
    SelectSeq([i \in 1..Len(file) |-> i], LAMBDA i : 2 * (i - 1) >= position)

\* Claude Code appends a line to the transcript
AppendLine ==
    /\ Len(sessionWatcher.file) < MaxFileLines
    /\ \E wide \in BOOLEAN :
        sessionWatcher' = [sessionWatcher EXCEPT
            !.file = Append(@, [wide |-> wide]),
            !.change = @ \/ sessionWatcher.seen]
    /\ WatcherFrame

\* chokidar's add event: the position is set to the size of the file
handleNewFile ==
    /\ ~sessionWatcher.seen
    /\ sessionWatcher' = [sessionWatcher EXCEPT
            !.seen = TRUE, !.seenAt = Len(sessionWatcher.file),
            !.position = sizeOf(sessionWatcher.file)]
    /\ WatcherFrame

\* chokidar's change event, handleFileChange up to its first await: the
\* file is read and sliced at the position, the position is set to the
\* length read, and the first new line is passed to processLogLine
handleFileChangeRead(h) ==
    /\ sessionWatcher.seen /\ sessionWatcher.change
    /\ sessionWatcher.readers[h].pc = "idle"
    /\ \A g \in Handlers : g < h => sessionWatcher.readers[g].pc # "idle"
    /\ LET w == sessionWatcher
           lines == newLines(w.file, w.position)
       IN  sessionWatcher' =
              IF lines = <<>> THEN [w EXCEPT !.change = FALSE]
              ELSE [w EXCEPT !.change = FALSE,
                             !.position = lengthOf(w.file),
                             !.readers[h] = [pc |-> "awaiting", lines |-> Tail(lines)],
                             !.delivered = Append(@, Head(lines))]
    /\ WatcherFrame

\* processLogLine has settled for handler h: the loop passes its next
\* line, or handleFileChange returns
processLogLineDone(h) ==
    /\ sessionWatcher.readers[h].pc = "awaiting"
    /\ LET w == sessionWatcher
           lines == w.readers[h].lines
       IN  sessionWatcher' =
              IF lines = <<>> THEN [w EXCEPT !.readers[h] = ReaderIdle]
              ELSE [w EXCEPT !.readers[h].lines = Tail(lines),
                             !.delivered = Append(@, Head(lines))]
    /\ WatcherFrame

(* ------------------------- specifications ----------------------------- *)

Init ==
    /\ queue = <<>>
    /\ nextId = 1
    /\ lifecycle = "created"
    /\ processing = FALSE
    /\ watcher = FALSE
    /\ cachedTeamId = FALSE
    /\ inv = [s \in Slots |-> IdleInv]
    /\ notif = 0
    /\ comments = <<>>
    /\ hist = [id \in IDs |-> NoHist]
    /\ drains = [clean   |-> FALSE,  \* no append or retry since the drain in flight began
                 count   |-> 0,      \* drain passes completed since the last append or retry
                 skipped |-> FALSE,  \* a notification met the guard during this drain
                 aborted |-> FALSE,  \* an exception left processQueue
                 escaped |-> FALSE]  \* ... and it came out of processItem
    /\ budget = [resets |-> 0, malformed |-> 0, restarts |-> 0]
    /\ hook = HookReady
    /\ attempt = AttemptIdle
    /\ resolver = ResolverReady
    /\ limiter = LimiterReady
    /\ sessionWatcher = WatcherReady
    /\ call = CallReady

Next ==
    \/ Start
    \/ OnChangeSkip
    \/ OnChangeDrain
    \/ \E s \in Slots : HandlerDone(s)
    \/ \E kind \in Kinds, session \in Sessions : Enqueue(kind, session)
    \/ \E id \in IDs : QueueRetry(id)
    \/ \E cutoff \in 0..MaxAppends : QueueClear(cutoff)

Spec == Init /\ [][Next]_vars

\* the same program on a queue file that may hold malformed lines
NextMalformed ==
    \/ Next
    \/ \E line \in {BlankLine, InvalidLine} : WriteMalformed(line)

SpecMalformed == Init /\ [][NextMalformed]_vars

\* the daemon with termination signals
NextShutdown ==
    \/ Next
    \/ handleShutdown
    \/ shutdownExit

SpecShutdown == Init /\ [][NextShutdown]_vars

\* processItem alone, on the records the hooks append
NextItem ==
    \/ \E kind \in Kinds, session \in Sessions : Enqueue(kind, session)
    \/ ItemTaken
    \/ ParseTranscript
    \/ FilterNoise
    \/ FindMatchingIssue
    \/ CreateIssueFromSession
    \/ EnsureIssueSetup
    \/ SummarizeSession
    \/ AddComment
    \/ PrResolve
    \/ PrCreateIssue
    \/ PrAttachLink
    \/ PrReview
    \/ ItemSettled

SpecItem == Init /\ [][NextItem]_vars

\* one issue resolution, on every input
NextResolve ==
    \/ ResolveIssue
    \/ WatcherResolve
    \/ FindMatch
    \/ FindMatches

SpecResolve == Init /\ [][NextResolve]_vars

\* the matcher called again and again under its rate limiter, with time
NextLimiter ==
    \/ Tick
    \/ MatcherInvoked
    \/ LimiterAcquire
    \/ LimiterWake
    \/ MatcherCall
    \/ MatcherReturn

SpecLimiter == Init /\ [][NextLimiter]_vars

\* the session watcher on the change events of one session file
NextWatcher ==
    \E h \in Handlers :
        \/ handleFileChange(h)
        \/ matcherCall(h)
        \/ matcherReturn(h)

SpecWatcher == Init /\ [][NextWatcher]_vars

\* one call of the queue writer, on every queue file
NextWriter ==
    \/ UpdateItemStatus
    \/ CleanupOldItems

SpecWriter == Init /\ [][NextWriter]_vars

\* the label step of ensureIssueSetup, on every issue and cache
NextLabels == EnsureLabels

SpecLabels == Init /\ [][NextLabels]_vars

\* The daemon's own steps happen when they can: start() runs to its first
\* suspension, Node.js delivers a change event that chokidar has emitted,
\* and a handler's promise settles. Hooks and commands are under no
\* obligation to run.
DaemonFairness ==
    /\ WF_vars(Start)
    /\ WF_vars(OnChangeSkip)
    /\ WF_vars(OnChangeDrain)
    /\ \A s \in Slots : WF_vars(HandlerDone(s))

SpecLive == Init /\ [][Next]_vars /\ DaemonFairness

\* the daemon stopped by a signal and started again
NextRestart ==
    \/ Start
    \/ OnChangeSkip
    \/ OnChangeDrain
    \/ \E s \in Slots : HandlerDone(s)
    \/ \E kind \in Kinds, session \in Sessions : Enqueue(kind, session)
    \/ handleShutdown
    \/ shutdownExit
    \/ startForeground

SpecRestart == Init /\ [][NextRestart]_vars /\ DaemonFairness

\* one bucket, several callers
NextBucket ==
    \/ Tick
    \/ \E c \in Callers : acquire(c)
    \/ \E c \in Callers : acquireWake(c)
    \/ \E c \in Callers : acquireReturned(c)
    \/ tryAcquire

SpecBucket == Init /\ [][NextBucket]_vars

\* the session watcher over one growing transcript
NextDelivery ==
    \/ AppendLine
    \/ handleNewFile
    \/ \E h \in Handlers : handleFileChangeRead(h)
    \/ \E h \in Handlers : processLogLineDone(h)

SpecDelivery == Init /\ [][NextDelivery]_vars

\* the hooks appending while another process rewrites the file
NextRewrite ==
    \/ \E kind \in Kinds, session \in Sessions : Enqueue(kind, session)
    \/ RewriteRead
    \/ RewriteWrite

SpecRewrite == Init /\ [][NextRewrite]_vars

\* the noise filter on every transcript
NextTranscript == FilterTwice

SpecTranscript == Init /\ [][NextTranscript]_vars

\* the post-tool-use hook alone, once, on every input
NextHook == PostToolUse

SpecHook == Init /\ [][NextHook]_vars

(* ============================ the claims ============================== *)

FileIds(lines) == {id \in IDs : InFile(lines, id)}

\* the reset of record `id` happens in this step
ResetStep(id) == hist'[id].resets # hist[id].resets

\* C1 (as stated): no record's status moves from processed to pending or
\* failed, or from pending straight to processed, in any step other than
\* the explicit reset, and a reset always leaves its record pending.
C1_QueueMonotonicity ==
    [][\A id \in IDs :
        LET a == StatusIn(queue, id)
            b == StatusIn(queue', id)
        IN  IF ResetStep(id) THEN b = "pending"
            ELSE /\ ~(a = "processed" /\ b \in {"pending", "failed"})
                 /\ ~(a = "pending" /\ b = "processed")]_vars

Delivered(r) ==
    \/ r.status = "processed"
    \/ r.status = "failed" /\ RetryCountOf(r) >= DefaultMaxRetries

\* C2: once DrainBound drain passes have completed with no append (and no
\* retry command) since the first of them began, every record of the queue
\* file is processed, or failed with retry_count >= max_retries.
C2_AtLeastOnce ==
    drains.count >= DrainBound =>
        \A i \in 1..Len(queue) : Delivered(queue[i])

C2_Witness ==
    /\ drains.count >= DrainBound
    /\ \E i \in 1..Len(queue) :
          queue[i].status = "failed" /\ RetryCountOf(queue[i]) = DefaultMaxRetries
    /\ \E i \in 1..Len(queue) : queue[i].status = "processed"

\* C3: a record that was never reset and whose handler never returned
\* normally is taken at most three times, stays in the file with
\* retry_count equal to the number of its failed attempts (never above
\* max_retries), and after the third attempt is failed with retry_count 3.
C3_RetryExhaustion ==
    \A id \in IDs :
        (hist[id].resets = 0 /\ ~hist[id].everOK /\ hist[id].attempts > 0) =>
            /\ InFile(queue, id)
            /\ hist[id].attempts <= DefaultMaxRetries
            /\ LET r == RecordOf(queue, id)
               IN  /\ RetryCountOf(r) <= DefaultMaxRetries
                   /\ IF hist[id].outcome = "running"
                      THEN RetryCountOf(r) = hist[id].attempts - 1
                      ELSE /\ RetryCountOf(r) = hist[id].attempts
                           /\ r.status = "failed"

C3_Witness ==
    \E id \in IDs :
        /\ hist[id].resets = 0 /\ ~hist[id].everOK
        /\ hist[id].attempts = DefaultMaxRetries
        /\ InFile(queue, id)
        /\ RecordOf(queue, id).status = "failed"
        /\ RecordOf(queue, id).retryCount = DefaultMaxRetries
        /\ drains.count >= 1 /\ ~processing

\* C4 (as stated): a session_stop record whose last attempt had a non-empty
\* filtered transcript is processed only if that attempt created a comment.
C4_ProcessedOnlyIfCommented ==
    \A i \in 1..Len(queue) :
        (/\ isSessionStopItem(queue[i])
         /\ queue[i].status = "processed"
         /\ hist[queue[i].id].nonEmpty) => hist[queue[i].id].commented

\* C5: in every attempt processItem writes processing first, then exactly
\* one of processed (the handler returned) and failed (it threw); a failed
\* record carries the exception's message and a retry_count one above the
\* count the attempt began with, a processed one the count unchanged.
C5_PerRecordHandling ==
    \A id \in IDs :
        /\ hist[id].outcome = "none" => hist[id].writes = <<>>
        /\ hist[id].outcome = "running" => hist[id].writes = <<"processing">>
        /\ hist[id].outcome = "returned" => hist[id].writes = <<"processing", "processed">>
        /\ hist[id].outcome = "threw" => hist[id].writes = <<"processing", "failed">>
        /\ StatusIn(queue, id) = "failed" =>
              /\ hist[id].outcome = "threw"
              /\ RecordOf(queue, id).error = hist[id].msg
              /\ hist[id].msg \in ErrMsgs
              /\ RecordOf(queue, id).retryCount = hist[id].rcBefore + 1
        /\ StatusIn(queue, id) = "processed" =>
              /\ hist[id].outcome = "returned"
              /\ RetryCountOf(RecordOf(queue, id)) = hist[id].rcBefore

C5_Witness ==
    \E id \in IDs :
        /\ hist[id].writes = <<"processing", "failed">>
        /\ hist[id].rcBefore = 1
        /\ StatusIn(queue, id) = "failed"
        /\ RecordOf(queue, id).error = "TypeError"
        /\ RecordOf(queue, id).retryCount = 2

\* C6 (as stated): a record of a kind other than session_stop and
\* pr_created is never marked processed.
C6_UnknownKindNeverProcessed ==
    \A i \in 1..Len(queue) :
        (~isSessionStopItem(queue[i]) /\ ~isPrCreatedItem(queue[i])) =>
            queue[i].status # "processed"

InFlight == {s \in Slots : inv[s].pc # "idle"}

\* C7: at most one invocation of processQueue is past the guard, and a
\* change notification delivered while a drain is in flight changes
\* neither the queue file nor any invocation nor the flag.
C7_NonReentrantDrain ==
    /\ [](Cardinality(InFlight) <= 1)
    /\ [][(processing /\ notif' < notif /\ lifecycle' # "exited")
            => UNCHANGED <<queue, inv, processing, hist>>]_vars

C7_Witness ==
    /\ drains.skipped
    /\ Cardinality(InFlight) = 1
    /\ \E i \in 1..Len(queue) : queue[i].status = "pending"

Processing == {i \in 1..Len(queue) : queue[i].status = "processing"}

Running == {id \in IDs : hist[id].outcome = "running"}

\* C8: at most one record has status processing, at most one record is
\* between its processing write and its processed/failed write, and a
\* record in status processing is that record.
C8_StrictlySequential ==
    /\ Cardinality(Processing) <= 1
    /\ Cardinality(Running) <= 1
    /\ \A i \in Processing : queue[i].id \in Running

C8_Witness ==
    \E s \in Slots :
        /\ inv[s].pc = "handling" /\ inv[s].idx = 2
        /\ hist[inv[s].items[1].id].outcome \in {"returned", "threw"}
        /\ StatusIn(queue, inv[s].items[1].id) \in {"processed", "failed"}
        /\ StatusIn(queue, inv[s].items[2].id) = "processing"

FirstComment(id) ==
    CHOOSE i \in 1..Len(comments) :
        comments[i].id = id /\ \A j \in 1..(i - 1) : comments[j].id # id

\* C9 (as stated): with no retry command issued, of two session_stop
\* records of one session that both have a comment, the one appended
\* earlier got its first comment before the one appended later.
C9_PerSessionOrdering ==
    budget.resets = 0 =>
        \A i, j \in 1..Len(comments) :
            (comments[i].session = comments[j].session /\ comments[i].id < comments[j].id)
                => FirstComment(comments[i].id) < FirstComment(comments[j].id)

\* C10 (as stated): a blank or invalid line does not abort the drain: when
\* a drain pass has ended, by return or by exception, and no producer wrote
\* since it began, no valid record of the file is left pending.
C10_MalformedLineSkipped ==
    (drains.clean /\ ~processing) =>
        \A i \in 1..Len(queue) : IsRecord(queue[i]) => queue[i].status # "pending"

\* C11 (as stated): no exception raised while one record is processed
\* leaves processItem, every attempt that has ended wrote processed or
\* failed for its record, and the drain pass went on to its end.
C11_PerRecordFailureBoundary ==
    /\ ~drains.escaped
    /\ \A id \in IDs :
          hist[id].outcome \in {"returned", "threw"} =>
              /\ Len(hist[id].writes) = 2
              /\ hist[id].writes[2] \in {"processed", "failed"}

\* C14 (as stated): once a termination signal has arrived the watcher is
\* closed, and when the process has exited on the signal no record is left
\* in status processing.
C14_ShutdownLeavesNoProcessing ==
    /\ lifecycle \in {"closing", "exited"} => (~watcher /\ notif = 0)
    /\ (lifecycle = "exited" /\ ~drains.aborted) =>
          \A i \in 1..Len(queue) : queue[i].status # "processing"

\* C15: a session_stop record whose transcript has no entry left after
\* parsing and noise filtering is marked processed, and from the start of
\* its attempt to the end no tracker or LLM operation is issued for it.
C15_EmptyTranscriptProcessed ==
    (attempt.type = "session_stop" /\ attempt.transcript \in {"missing", "noise"}) =>
        /\ attempt.ops = <<>>
        /\ ~attempt.commented
        /\ attempt.pc \in {"return", "done", "filterNoise"}
        /\ attempt.pc = "done" => StatusIn(queue, attempt.id) = "processed"

C15_Witness ==
    /\ attempt.pc = "done"
    /\ attempt.type = "session_stop"
    /\ attempt.transcript = "noise"
    /\ StatusIn(queue, attempt.id) = "processed"
    /\ attempt.ops = <<>>

\* C16 (as stated): when no issue matches and no team is cached, the
\* attempt ends with the record failed, retry_count incremented, and no
\* comment posted.
C16_NoTeamMarksFailed ==
    (/\ attempt.pc = "done" /\ attempt.type = "session_stop"
     /\ attempt.transcript = "content" /\ attempt.match = "none"
     /\ ~cachedTeamId) =>
        /\ StatusIn(queue, attempt.id) = "failed"
        /\ RecordOf(queue, attempt.id).retryCount = 1
        /\ ~attempt.commented

StepRank(op) ==
    CASE op = "findMatchingIssue" -> 1
      [] op = "createIssue" -> 2
      [] op = "assignIssue" -> 3
      [] op = "updateIssueStatus" -> 4
      [] op = "addLabels" -> 5
      [] op = "summarizeSession" -> 6
      [] op = "addComment" -> 7

Issued(op) == \E i \in 1..Len(attempt.ops) : attempt.ops[i] = op

\* C17 (as stated): the operations of one attempt are issued in the order
\* resolve, create, assign, state, labels, summarize, comment; the comment
\* comes after the resolution and the summary, and a record with content
\* is marked processed only after the comment step was reached.
C17_StepOrder ==
    /\ \A i, j \in 1..Len(attempt.ops) :
          i < j => StepRank(attempt.ops[i]) < StepRank(attempt.ops[j])
    /\ Issued("addComment") => (Issued("findMatchingIssue") /\ Issued("summarizeSession"))
    /\ (/\ attempt.pc = "done" /\ attempt.type = "session_stop"
        /\ attempt.transcript = "content"
        /\ StatusIn(queue, attempt.id) = "processed") => Issued("addComment")

(* -------------------- the claims on issue resolution ------------------- *)

\* text is X+-\d+ for the letters X of the pattern
IsIssueId(pattern, text) ==
    \E h \in 2..(Len(text) - 1) :
        /\ text[h] = "-"
        /\ \A k \in 1..(h - 1) : text[k] \in pattern.letters
        /\ \A k \in (h + 1)..Len(text) : text[k] \in {"7", "8"}

Captures(pattern, branch) ==
    {ij \in (1..Len(branch)) \X (1..Len(branch)) :
        ij[1] <= ij[2] /\ IsIssueId(pattern, SubSeq(branch, ij[1], ij[2]))}

\* what group 1 of the pattern captures at its first match in branch
FirstCapture(pattern, branch) ==
    IF Captures(pattern, branch) = {} THEN NoIssue
    ELSE LET ij == CHOOSE x \in Captures(pattern, branch) :
                      \A y \in Captures(pattern, branch) :
                          x[1] < y[1] \/ (x[1] = y[1] /\ x[2] >= y[2])
         IN  SubSeq(branch, ij[1], ij[2])

\* C18 (as stated): when the session's branch matches the configured
\* branch pattern, the resolution returns the captured identifier and has
\* issued no call: no rate-limiter token, no search, no LLM request.
C18_BranchHitIssuesNoCall ==
    (/\ resolver.pc = "done"
     /\ resolver.via \in {"findMatchingIssue", "processLogLine"}
     /\ resolver.caller \in {"session_stop", "watcher"}
     /\ FirstCapture(resolver.config.branchPattern, resolver.branch) # NoIssue) =>
        /\ resolver.branchId = FirstCapture(resolver.config.branchPattern, resolver.branch)
        /\ resolver.ops = <<>>

\* C19 (as stated): for every branch, a resolution with no session content
\* returns X if and only if group 1 of the configured pattern captures X at
\* its first match in the branch, and nothing when the pattern does not match.
C19_BranchExtraction ==
    (/\ resolver.pc = "done"
     /\ resolver.via \in {"findMatchingIssue", "processLogLine"}
     /\ ~resolver.hasUserMessages) =>
        /\ resolver.branchId = FirstCapture(resolver.config.branchPattern, resolver.branch)
        /\ resolver.match.identifier = 0

ConsideredCandidates(env, config) ==
    IF env.viaRecent THEN Identified(env.results)
    ELSE SubSeq(Identified(env.results), 1, Min(Len(env.results), config.maxCandidates))

ConfidenceOf(c, env, config) ==
    LET adjusted == c.keywordScore + calculateStateBonus(c.state) \div 10
        usable == /\ ~env.viaRecent /\ config.enableSemantic /\ ~env.llmFails
                  /\ c.relevance # Undef /\ c.relevance >= MinRelevanceScore
    IN  IF usable
        THEN (adjusted * config.keywordWeight + c.relevance * config.semanticWeight)
                 \div (config.keywordWeight + config.semanticWeight)
        ELSE adjusted

\* C20: findMatch returns a candidate only if its confidence is at least
\* the threshold, and then no candidate has a higher confidence.
C20_ConfidenceAcceptance ==
    (resolver.pc = "done" /\ resolver.via = "findMatch" /\ resolver.match.identifier # 0) =>
        LET cs == ConsideredCandidates(resolver.env, resolver.config)
        IN  /\ resolver.match.confidence >= resolver.config.confidenceThreshold
            /\ \E i \in 1..Len(cs) :
                  /\ cs[i].identifier = resolver.match.identifier
                  /\ ConfidenceOf(cs[i], resolver.env, resolver.config) = resolver.match.confidence
            /\ \A i \in 1..Len(cs) :
                  ConfidenceOf(cs[i], resolver.env, resolver.config) <= resolver.match.confidence

C20_Witness ==
    /\ resolver.pc = "done" /\ resolver.via = "findMatch"
    /\ resolver.match.identifier = 2
    /\ resolver.match.matchType = "hybrid"
    /\ resolver.match.confidence >= resolver.config.confidenceThreshold
    /\ Len(resolver.env.results) = 2

(* ----------------------- the claims on scoring ------------------------- *)

MatcherDone == resolver.pc = "done" /\ resolver.via = "findMatches"

\* the candidate of the search a result was made from
CandidateOf(result) == Identified(resolver.env.results)[result.identifier]

AdjustedKeywordScore(result) ==
    result.keywordScore + calculateStateBonus(CandidateOf(result).state) \div 10

InUnit(score) == 0 <= score /\ score <= 1000

\* C21 (as stated): the keyword score, the adjusted keyword score and the
\* confidence of every match result lie within [0.0, 1.0].
C21_ScoreCap ==
    /\ \A s \in KeywordSignals : InUnit(calculateKeywordScore(s))
    /\ MatcherDone =>
          \A i \in 1..Len(resolver.results) :
              /\ InUnit(resolver.results[i].keywordScore)
              /\ InUnit(AdjustedKeywordScore(resolver.results[i]))
              /\ InUnit(resolver.results[i].confidence)

\* the weighted mean of the claim, exact up to the last thousandth
IsWeightedMean(confidence, adjusted, semantic, config) ==
    LET total == config.keywordWeight + config.semanticWeight
        exact == adjusted * config.keywordWeight + semantic * config.semanticWeight
    IN  confidence * total <= exact /\ exact < (confidence + 1) * total

\* the LLM was asked and gave this candidate a relevance score
ScoredByLLM(result) ==
    /\ ~resolver.env.viaRecent /\ resolver.config.enableSemantic /\ ~resolver.env.llmFails
    /\ CandidateOf(result).relevance # Undef

\* C22 (as stated): a candidate the LLM scored has the weighted mean of its
\* adjusted keyword score and that score as confidence (0.55 with 0.2
\* gives 0.41); a candidate without a score has its adjusted keyword score.
C22_ScoreCombination_AsStated ==
    MatcherDone =>
        \A i \in 1..Len(resolver.results) :
            LET r == resolver.results[i]
            IN  IF ScoredByLLM(r)
                THEN IsWeightedMean(r.confidence, AdjustedKeywordScore(r),
                                    CandidateOf(r).relevance, resolver.config)
                ELSE r.confidence = AdjustedKeywordScore(r)

\* C22 (amended): a candidate whose LLM relevance is at least 0.3 has the
\* weighted mean as confidence; every other candidate, one scored below 0.3
\* included, has its adjusted keyword score (0.55 with 0.2 gives 0.55), and
\* findMatch accepts the best result exactly when it reaches the threshold.
C22_ScoreCombination ==
    /\ MatcherDone =>
        \A i \in 1..Len(resolver.results) :
            LET r == resolver.results[i]
            IN  IF ScoredByLLM(r) /\ CandidateOf(r).relevance >= MinRelevanceScore
                THEN IsWeightedMean(r.confidence, AdjustedKeywordScore(r),
                                    CandidateOf(r).relevance, resolver.config)
                ELSE r.confidence = AdjustedKeywordScore(r)
    /\ (resolver.pc = "done" /\ resolver.via = "findMatch") =>
          LET best == findMatches(resolver.env, resolver.config).results
          IN  (resolver.match.identifier # 0) <=>
                  (best # <<>> /\ best[1].confidence >= resolver.config.confidenceThreshold)

\* the example: two candidates at keyword 0.55 in a finished state, scored
\* 0.9 and 0.2, weights 0.6 and 0.4: confidences 0.69 and 0.55
C22_Witness ==
    /\ MatcherDone
    /\ resolver.config.keywordWeight = 600 /\ resolver.config.semanticWeight = 400
    /\ Len(resolver.results) = 2
    /\ \A i \in 1..2 : /\ resolver.results[i].keywordScore = 550
                       /\ CandidateOf(resolver.results[i]).state = "Done"
                       /\ ScoredByLLM(resolver.results[i])
    /\ CandidateOf(resolver.results[1]).relevance = 900
    /\ resolver.results[1].confidence = 690
    /\ CandidateOf(resolver.results[2]).relevance = 200
    /\ resolver.results[2].confidence = 550

\* C25: when the LLM request fails or its answer cannot be parsed,
\* findMatches returns the candidates it took from the search, each with
\* its adjusted keyword score as confidence and match type keyword.
C25_SemanticDegradation ==
    (/\ MatcherDone /\ resolver.config.enableSemantic
     /\ ~resolver.env.viaRecent /\ resolver.env.llmFails) =>
        LET cs == ConsideredCandidates(resolver.env, resolver.config)
        IN  /\ Len(resolver.results) = Len(cs)
            /\ \A k \in 1..Len(cs) :
                   \E i \in 1..Len(resolver.results) :
                       resolver.results[i].identifier = cs[k].identifier
            /\ \A i \in 1..Len(resolver.results) :
                   /\ resolver.results[i].confidence = AdjustedKeywordScore(resolver.results[i])
                   /\ resolver.results[i].matchType = "keyword"
                   /\ resolver.results[i].semanticScore = Undef

C25_Witness ==
    /\ MatcherDone /\ resolver.config.enableSemantic
    /\ ~resolver.env.viaRecent /\ resolver.env.llmFails
    /\ resolver.ops = <<"acquire", "search", "acquire", "matchIssues">>
    /\ Len(resolver.results) = 2
    /\ \E i \in 1..2 : CandidateOf(resolver.results[i]).relevance = 900

(* --------------------- the claims on rate limiting --------------------- *)

\* the calls issued in the minute that ends now
CallsInWindow ==
    SelectSeq(limiter.calls, LAMBDA t : t > limiter.now - TicksPerMinute)

\* C23 (as stated): in any 60-second window the matcher issues at most
\* max_api_calls_per_minute + 1 tracker and LLM calls.
C23_RateLimitBound == Len(CallsInWindow) <= MaxPerMinute + 1

\* C24 (as stated): every invocation of findMatches has consumed exactly
\* two rate-limiter tokens when it returns.
C24_TwoTokensPerInvocation == (limiter.pc = "returned") => (limiter.taken = 2)

(* ------------------- the claims on the queue writer -------------------- *)

RecordsOf(file) == SelectSeq(file, LAMBDA l : l # BlankLine)

Updated == call.pc = "done" /\ call.fn = "updateItemStatus" /\ ~call.threw

\* C28: updateItemStatus(id, s) leaves the number and order of the records
\* and every other record as they were; of the record with that id it keeps
\* id, kind, time and session, sets the status to s, and adds one to
\* retry_count exactly when s is failed.
C28_UpdateStatusSemantics ==
    Updated =>
        LET b == RecordsOf(call.before)
            a == RecordsOf(call.after)
        IN  /\ Len(a) = Len(b)
            /\ \A i \in 1..Len(b) :
                  IF b[i].id # call.id THEN a[i] = b[i]
                  ELSE /\ a[i].id = b[i].id /\ a[i].type = b[i].type
                       /\ a[i].timestamp = b[i].timestamp
                       /\ a[i].sessionId = b[i].sessionId
                       /\ a[i].status = call.status
                       /\ IF call.status = "failed"
                          THEN a[i].retryCount = RetryCountOf(b[i]) + 1
                          ELSE a[i].retryCount = b[i].retryCount

C28_Witness ==
    /\ Updated /\ call.status = "pending" /\ call.id = 2
    /\ Len(RecordsOf(call.before)) = 2
    /\ RecordsOf(call.before)[2].status = "failed"
    /\ RecordsOf(call.before)[2].retryCount = 2
    /\ RecordsOf(call.after)[2].retryCount = 2
    /\ RecordsOf(call.after)[2].status = "pending"
    /\ RecordsOf(call.after)[1] = RecordsOf(call.before)[1]

Cleaned == call.pc = "done" /\ call.fn = "cleanupOldItems"

\* the records the claim has removed: processed and older than the threshold
ToRemove(r) ==
    /\ r.status = "processed"
    /\ call.hours # NotANumber
    /\ r.timestamp < Now - call.hours

\* C29 (as stated): cleanup_old(hours) removes exactly the processed records
\* older than the threshold; the others survive in order, unchanged, and
\* the count returned is the number removed.
C29_CleanupOld ==
    Cleaned =>
        /\ RecordsOf(call.after) = SelectSeq(RecordsOf(call.before), LAMBDA r : ~ToRemove(r))
        /\ call.removed = Len(RecordsOf(call.before)) - Len(RecordsOf(call.after))

(* ------------------------ the claim on labels -------------------------- *)

\* the derived labels that exist in the cached label set
DerivedCached ==
    {id \in IssueLabelIds :
        \E c \in call.cachedLabels, name \in call.matched :
            c.id = id /\ toLowerCase(c.name) = toLowerCase(name)}

\* C30 (as stated): after the setup step the label set of the issue is the
\* union of its labels before the step and the derived labels that exist
\* in the cache; nothing is removed.
C30_LabelUnion ==
    (call.pc = "done" /\ call.fn = "ensureIssueSetup") =>
        /\ call.after = call.before \cup DerivedCached
        /\ call.before \subseteq call.after

(* -------------------- the claim on late appends ------------------------ *)

\* C33 (as stated): a record that is pending while the daemon runs (so also
\* one appended while a drain is in flight, or during start() before the
\* watcher is subscribed) is eventually taken by a drain, whether or not
\* anything is appended later.
C33_LateAppendEventuallyTaken ==
    \A id \in IDs :
        (StatusIn(queue, id) = "pending" /\ lifecycle \in {"initial", "watching"})
            ~> (StatusIn(queue, id) # "pending")

(* ---------------- the claim on records left processing ---------------- *)

\* C34 (as stated): a record that a former processor left in status
\* processing is, once the next processor runs, eventually processed or
\* failed (unless that processor is stopped as well).
C34_ProcessingIsRecovered ==
    \A id \in IDs :
        (StatusIn(queue, id) = "processing" /\ lifecycle = "created"
                                            /\ budget.restarts > 0)
            ~> (StatusIn(queue, id) \in {"processed", "failed"} \/ lifecycle = "exited")

(* ------------------- the claim on one drain pass ----------------------- *)

ItemIds(items) == {items[i].id : i \in 1..Len(items)}

\* C35 (as stated): when a drain goes from its pending phase to its
\* retryable phase, none of the records it handled in the pending phase is
\* in the list it retries.
C35_OncePerDrain ==
    [][\A s \in Slots :
          (inv[s].pc = "handling" /\ inv[s].stage = "pending"
             /\ inv'[s].pc = "handling" /\ inv'[s].stage = "retry")
          => ItemIds(inv'[s].items) \cap ItemIds(inv[s].items) = {}]_vars

(* -------------------- the claim on the drain guard --------------------- *)

\* C36: the processing flag is true exactly while an invocation of
\* processQueue is past the guard and has not ended, whether it ended by
\* returning or by an exception.
C36_GuardReleased ==
    /\ processing <=> (\E s \in Slots : inv[s].pc = "handling")
    /\ drains.aborted => ~processing

\* a drain has ended by the exception of a queue read, another has ended
\* normally before, and the flag is down
C36_Witness ==
    /\ drains.aborted /\ ~drains.escaped
    /\ \E id \in IDs : StatusIn(queue, id) = "processed"
    /\ ~processing

(* -------------------- the claim on the token bucket -------------------- *)

\* C37 (as stated): the token count is within [0, maxTokens] in every
\* state, also with several acquire() calls asleep, and acquire() returns
\* only when a whole token was there for it.
C37_TokenBucketInvariant ==
    /\ limiter.tokens >= 0
    /\ limiter.tokens <= MaxPerMinute * OneToken
    /\ \A c \in Callers : limiter.callers[c].whole

(* ----------------- the claim on the watcher's delivery ----------------- *)

\* no change event is outstanding and no handler holds a line
Quiet ==
    /\ sessionWatcher.seen /\ ~sessionWatcher.change
    /\ \A h \in Handlers : sessionWatcher.readers[h].pc = "idle"

TimesDelivered(n) ==
    Cardinality({i \in 1..Len(sessionWatcher.delivered) : sessionWatcher.delivered[i] = n})

\* the calls of processLogLine so far are in the order of the file
InFileOrder ==
    \A i, j \in 1..Len(sessionWatcher.delivered) :
          i < j => sessionWatcher.delivered[i] < sessionWatcher.delivered[j]

\* C38 (as stated): no line is passed to processLogLine twice, the lines
\* are passed in file order, and once the watcher is quiet every line
\* appended after the file was first seen has been passed.
C38_WatcherDelivery ==
    /\ \A n \in 1..MaxFileLines : TimesDelivered(n) <= 1
    /\ InFileOrder
    /\ Quiet => \A n \in (sessionWatcher.seenAt + 1)..Len(sessionWatcher.file) :
                    TimesDelivered(n) = 1

(* -------------------- the claim on the error field --------------------- *)

\* C39: after every step of the daemon and of the retry command, a record
\* of the file holds an error exactly when its status is failed (so a
\* status written as pending, processing or processed drops the error), and
\* a record that becomes processed keeps the retry_count it had.
C39_ErrorFieldInvariant ==
    [][\A id \in IDs : InFile(queue', id) =>
          /\ RecordOf(queue', id).error # NoError <=> StatusIn(queue', id) = "failed"
          /\ (InFile(queue, id) /\ StatusIn(queue', id) = "processed")
                => RecordOf(queue', id).retryCount = RecordOf(queue, id).retryCount]_vars

\* a record that failed, was retried and succeeded: processed, no error,
\* its retry_count kept
C39_Witness ==
    \E id \in IDs :
        /\ StatusIn(queue, id) = "processed"
        /\ RecordOf(queue, id).error = NoError
        /\ RetryCountOf(RecordOf(queue, id)) >= 1
        /\ hist[id].everOK

(* ------------------ the claim on concurrent appends -------------------- *)

\* C32 (as stated): every record a hook has appended is in the file, unless
\* cleanup removed it as processed and old: no status rewrite and no
\* cleanup drops a record appended between its read and its write.
C32_NoLostRecords ==
    \A id \in 1..(nextId - 1) : InFile(queue, id) \/ id \in DroppedSoFar

(* --------------------- the claim on the noise filter ------------------- *)

Filtered == call.pc = "done" /\ call.fn = "filterNoise"

\* t is s with some entries left out, the others in their order
RECURSIVE IsSubsequence(_, _)
IsSubsequence(t, s) ==
    IF t = <<>> THEN TRUE
    ELSE IF s = <<>> THEN FALSE
    ELSE IF Head(t) = Head(s) THEN IsSubsequence(Tail(t), Tail(s))
    ELSE IsSubsequence(t, Tail(s))

\* C31: filtering a filtered list changes nothing, and the filter keeps the
\* entries it retains in their order.
C31_NoiseFilterIdempotent ==
    Filtered => (call.after = call.once /\ IsSubsequence(call.once, call.before))

C31_Witness ==
    /\ Filtered
    /\ Len(call.before) = 3 /\ Len(call.once) = 2 /\ call.after = call.once
    /\ call.before[2].type = "assistant" /\ call.once[1] = call.before[1]
    /\ call.once[2] = call.before[3] /\ call.before[1] # call.before[3]

(* --------------------- the claims on pull requests --------------------- *)

PrIssued(op) == \E i \in 1..Len(attempt.prOps) : attempt.prOps[i] = op

\* C27 (as stated): for a pr_created record a placeholder issue is created
\* only if the session's branch resolves to no issue and a team is cached;
\* the link is attached before any state update; and a record whose link
\* was attached is marked processed also when no review state exists.
C27_PrCreatedHandling ==
    (attempt.type = "pr_created") =>
        /\ PrIssued("createIssue") =>
              (FirstCapture(DefaultPattern, attempt.branch) = NoIssue /\ cachedTeamId)
        /\ \A j \in 1..Len(attempt.prOps) :
              attempt.prOps[j] = "updateIssueStatus" =>
                  \E i \in 1..(j - 1) : attempt.prOps[i] = "attachLink"
        /\ (attempt.pc = "done" /\ PrIssued("attachLink") /\ ~attempt.reviewState) =>
              (StatusIn(queue, attempt.id) = "processed" /\ ~PrIssued("updateIssueStatus"))

(* --------------------- the claims on the match cache ------------------- *)

\* the position of the first result the matcher produced for the session
FirstResultAt ==
    IF \E i \in 1..Len(sessionWatcher.ops) : sessionWatcher.ops[i] = "result"
    THEN CHOOSE i \in 1..Len(sessionWatcher.ops) :
            /\ sessionWatcher.ops[i] = "result"
            /\ \A k \in 1..(i - 1) : sessionWatcher.ops[k] # "result"
    ELSE 0

\* C26 (as stated): once the matcher has produced a result for the
\* session, no further matcher, search or LLM call is issued for it, also
\* when change events overlap.
C26_PerSessionMatchCache ==
    FirstResultAt # 0 =>
        \A i \in (FirstResultAt + 1)..Len(sessionWatcher.ops) :
            sessionWatcher.ops[i] \notin {"findMatch", "search", "matchIssues"}

(* ----------------------- the hook's claims --------------------------- *)

\* u is https://github.com/<owner>/<repo>/pull/<n>: owner and repo are
\* non-empty and hold no slash, n is one or more digits
IsPrUrl(u) ==
    \E a, b \in 1..Len(u) :
        /\ u[1] = GitHubPrefix
        /\ 2 < a /\ a + 1 < b /\ b + 2 < Len(u)
        /\ u[a] = "/" /\ u[b] = "/" /\ u[b + 1] = "pull" /\ u[b + 2] = "/"
        /\ \A k \in (2..(a - 1)) \cup ((a + 1)..(b - 1)) : u[k] \notin {"/", GitHubPrefix}
        /\ \A k \in (b + 3)..Len(u) : u[k] \in {"7", "8"}

\* where text holds a pull-request URL: <<first, last>> fragment
UrlsIn(text) ==
    {ij \in (1..Len(text)) \X (1..Len(text)) :
        ij[1] <= ij[2] /\ IsPrUrl(SubSeq(text, ij[1], ij[2]))}

\* the first URL of text, with all the digits of its number
FirstUrlIn(text) ==
    LET ij == CHOOSE x \in UrlsIn(text) :
                  \A y \in UrlsIn(text) : x[1] < y[1] \/ (x[1] = y[1] /\ x[2] >= y[2])
    IN  SubSeq(text, ij[1], ij[2])

HookShouldAppend(stdin) ==
    /\ stdin.valid
    /\ stdin.tool_name = "Bash"
    /\ stdin.hasCommand
    /\ \E i \in 1..Len(stdin.command) :
          /\ i + 2 <= Len(stdin.command)
          /\ stdin.command[i] = "gh" /\ stdin.command[i + 1] = "pr"
          /\ stdin.command[i + 2] = "create"
    /\ UrlsIn(stdin.tool_response) # {}

\* C12: when the hook has run (and the queue file could be written), the
\* queue holds exactly one new record, a pending pr_created one with the
\* first pull-request URL of tool_response, if tool_name is Bash, the
\* command contains "gh pr create" and tool_response holds such a URL; in
\* every other case it holds none.
C12_HookAppendsPrCreated ==
    hook.pc = "exited" =>
        IF HookShouldAppend(hook.stdin) /\ hook.enqueueOk
        THEN /\ Len(queue) = 1
             /\ queue[1].type = "pr_created"
             /\ queue[1].status = "pending"
             /\ queue[1].sessionId = hook.stdin.session_id
             /\ queue[1].prUrl = FirstUrlIn(hook.stdin.tool_response)
        ELSE queue = <<>>

C12_Witness ==
    /\ hook.pc = "exited"
    /\ Len(queue) = 1
    /\ queue[1].prUrl = <<GitHubPrefix, "a", "/", "a", "/", "pull", "/", "8", "7">>
    /\ Len(hook.stdin.tool_response) = 17
    /\ Len(hook.stdin.command) = 3

\* C13: whatever the hook met (input that is no JSON, another tool, no
\* URL, a queue file it could not write), it has emitted the continue
\* decision exactly once when it exits.
C13_HookAlwaysContinues ==
    hook.pc = "exited" => hook.continues = 1

C13_Witness ==
    /\ hook.pc = "exited"
    /\ hook.logged
    /\ hook.stdin.valid
    /\ ~hook.enqueueOk
    /\ hook.continues = 1
    /\ queue = <<>>

====
